---- MODULE Spec2Model ----
(***************************************************************************)
(* A model of the PObjects package: the SI unit algebra (SI.Unit), the SI  *)
(* prefix engine (SI.Prefix) and the value-plus-unit type (PObject).       *)
(*                                                                         *)
(* Text is modelled as a sequence of characters, each character a string   *)
(* of its own; the two non-ASCII characters of the source are written      *)
(* "Omega" (the Ohm sign) and "mu" (the micro sign).                       *)
(* Numbers that Python holds as floats are modelled as exact decimals      *)
(* [m, e], the value m * 10^e; floating-point rounding is not modelled.    *)
(***************************************************************************)
EXTENDS Integers, Sequences, FiniteSets, TLC

VARIABLES
    acc,      \* SI.Unit: the Unit object most recently constructed
    last,     \* SI.Unit: the most recent call (operation, operands, outcome)
    pfx,      \* SI.Prefix: the most recent call of the prefix engine
    objs,     \* PObject: the live PObject instances bound to the names x, y
    dicts,    \* PObject: the keyword-argument dicts the instances refer to
    qlast,    \* PObject: the most recent operator call and what it returned
    eobj,     \* EEObject: the object bound to the name r and the last call on it
    iter      \* ErangeIter: the iterator's fields and what it has returned

vars == <<acc, last, pfx, objs, dicts, qlast, eobj, iter>>

----------------------------------------------------------------------------
(* Bounds of the model                                                     *)

\* operands of the Unit operators have numerator and denominator up to this
MaxNum == 40000
\* Unit( (num, den) ) is called directly with components up to this
MaxTuple == 6
\* "**<int>" suffixes of the parsed unit texts run from 0 to this
MaxSuffix == 2
\* Unit.__pow__ is called with exponents k/2 for |k| up to this
MaxPow2 == 4
\* the floats of the model hold the powers of ten down to 10**-FloatDecades;
\* a smaller one is 0.0, as 10**-324 is
FloatDecades == 3
\* at most this many calls are made on an EEObject after its construction
MaxCalls == 2

----------------------------------------------------------------------------
(* Helpers for integers and text                                           *)

RECURSIVE gcd(_, _)
\* math.gcd on non-negative integers; gcd(0, 0) = 0
gcd(a, b) == IF b = 0 THEN a ELSE gcd(b, a % b)

RECURSIVE ipow(_, _)
\* x**k for integers x and k >= 0
ipow(x, k) == IF k = 0 THEN 1 ELSE x * ipow(x, k - 1)

RECURSIVE sqrtBetween(_, _, _)
\* bisection for the integer square root of x between lo and hi
sqrtBetween(x, lo, hi) ==
    IF lo = hi THEN (IF lo * lo = x THEN lo ELSE -1)
    ELSE LET mid == (lo + hi + 1) \div 2
         IN  IF mid * mid <= x THEN sqrtBetween(x, mid, hi)
             ELSE sqrtBetween(x, lo, mid - 1)

\* the integer r >= 0 with r*r = x, or -1 when x is no perfect square
isqrt(x) == sqrtBetween(x, 0, IF x < 46340 THEN x ELSE 46340)

Digits == <<"0", "1", "2", "3", "4", "5", "6", "7", "8", "9">>

IsDigit(ch) == \E i \in 1..10 : Digits[i] = ch

DigitVal(ch) == (CHOOSE i \in 1..10 : Digits[i] = ch) - 1

RECURSIVE count(_, _)
\* str.count( ch ) for a single character ch
count(s, ch) == IF s = <<>> THEN 0
                ELSE (IF Head(s) = ch THEN 1 ELSE 0) + count(Tail(s), ch)

\* s.replace( "(", "" ).replace( ")", "" )
removeParens(s) == SelectSeq(s, LAMBDA ch : ch \notin {"(", ")"})

RECURSIVE splitFrom(_, _, _)
splitFrom(s, sep, cur) ==
    IF s = <<>> THEN <<cur>>
    ELSE IF Head(s) = sep THEN <<cur>> \o splitFrom(Tail(s), sep, <<>>)
    ELSE splitFrom(Tail(s), sep, Append(cur, Head(s)))

\* str.split( sep ) for a single character sep: the sequence of tokens
split(s, sep) == splitFrom(s, sep, <<>>)

\* token.find( "**" ): the 0-based position of the first "**", or -1
findStarStar(s) ==
    LET hits == {i \in 1..(Len(s) - 1) : s[i] = "*" /\ s[i + 1] = "*"}
    IN  IF hits = {} THEN -1
        ELSE (CHOOSE i \in hits : \A j \in hits : i <= j) - 1

RECURSIVE digitsValue(_, _)
digitsValue(s, sofar) ==
    IF s = <<>> THEN sofar
    ELSE digitsValue(Tail(s), 10 * sofar + DigitVal(Head(s)))

\* int( text ) for an unsigned decimal literal: [ok, val]; any other text is
\* a ValueError (signed literals are outside the modelled inputs)
parseInt(s) ==
    IF s # <<>> /\ \A i \in 1..Len(s) : IsDigit(s[i])
    THEN [ok |-> TRUE, val |-> digitsValue(s, 0)]
    ELSE [ok |-> FALSE, val |-> 0]

RECURSIVE intText(_)
\* str( n ) for an integer n >= 0
intText(n) == IF n < 10 THEN <<Digits[n + 1]>>
              ELSE intText(n \div 10) \o <<Digits[(n % 10) + 1]>>

RECURSIVE join(_, _)
\* sep.join( tokens )
join(tokens, sep) ==
    IF tokens = <<>> THEN <<>>
    ELSE IF Len(tokens) = 1 THEN tokens[1]
    ELSE tokens[1] \o sep \o join(Tail(tokens), sep)

RECURSIVE strip(_)
\* str.strip(): blanks removed at both ends
strip(s) == IF s = <<>> THEN s
            ELSE IF Head(s) = " " THEN strip(Tail(s))
            ELSE IF s[Len(s)] = " " THEN strip(SubSeq(s, 1, Len(s) - 1))
            ELSE s

\* s.startswith( p )
startsWith(s, p) == Len(s) >= Len(p) /\ SubSeq(s, 1, Len(p)) = p

RECURSIVE replace(_, _, _)
\* s.replace( old, new ) for a non-empty old: every occurrence, found from
\* the left, none overlapping another
replace(s, old, new) ==
    IF s = <<>> THEN <<>>
    ELSE IF startsWith(s, old)
    THEN new \o replace(SubSeq(s, Len(old) + 1, Len(s)), old, new)
    ELSE <<Head(s)>> \o replace(Tail(s), old, new)

RECURSIVE repeated(_, _)
\* s * k
repeated(s, k) == IF k <= 0 THEN <<>> ELSE s \o repeated(s, k - 1)

----------------------------------------------------------------------------
(* SI.Unit                                                                 *)

\* Unit.__baseDict: the prime of each SI base unit
baseDict == <<[p |-> 2,  name |-> <<"m">>],
              [p |-> 3,  name |-> <<"k", "g">>],
              [p |-> 5,  name |-> <<"s">>],
              [p |-> 7,  name |-> <<"A">>],
              [p |-> 11, name |-> <<"K">>],
              [p |-> 13, name |-> <<"m", "o", "l">>],
              [p |-> 17, name |-> <<"c", "d">>]>>

\* Unit.__namesDict: (numerator, denominator) -> name
namesDict == <<[num |-> 1,     den |-> 1,    name |-> <<>>],
               [num |-> 2,     den |-> 1,    name |-> <<"m">>],
               [num |-> 3,     den |-> 1,    name |-> <<"k", "g">>],
               [num |-> 5,     den |-> 1,    name |-> <<"s">>],
               [num |-> 7,     den |-> 1,    name |-> <<"A">>],
               [num |-> 11,    den |-> 1,    name |-> <<"K">>],
               [num |-> 13,    den |-> 1,    name |-> <<"m", "o", "l">>],
               [num |-> 17,    den |-> 1,    name |-> <<"c", "d">>],
               [num |-> 1,     den |-> 5,    name |-> <<"H", "z">>],
               [num |-> 6,     den |-> 25,   name |-> <<"N">>],
               [num |-> 3,     den |-> 50,   name |-> <<"P", "a">>],
               [num |-> 12,    den |-> 25,   name |-> <<"J">>],
               [num |-> 12,    den |-> 125,  name |-> <<"W">>],
               [num |-> 35,    den |-> 1,    name |-> <<"C">>],
               [num |-> 12,    den |-> 875,  name |-> <<"V">>],
               [num |-> 30625, den |-> 12,   name |-> <<"F">>],
               [num |-> 12,    den |-> 6125, name |-> <<"Omega">>],
               [num |-> 6125,  den |-> 12,   name |-> <<"S">>],
               [num |-> 12,    den |-> 175,  name |-> <<"W", "b">>],
               [num |-> 3,     den |-> 175,  name |-> <<"T">>],
               [num |-> 12,    den |-> 1225, name |-> <<"H">>],
               [num |-> 17,    den |-> 4,    name |-> <<"l", "x">>]>>

\* What a call of the Unit class produces: a Unit object (kind "Unit"), the
\* bare tuple that __pow__ returns for power 0 (kind "tuple"), or an
\* exception (exc names it and no object is produced)
Made(k, n, d) == [exc |-> "none", kind |-> k, num |-> n, den |-> d]

Raised(e) == [exc |-> e, kind |-> "none", num |-> 0, den |-> 0]

\* Unit.__init__ with a tuple: the components divided by their gcd
Unit_init_tuple(num, den) ==
    IF gcd(num, den) = 0
    THEN Raised("ZeroDivisionError")
    ELSE Made("Unit", num \div gcd(num, den), den \div gcd(num, den))

RECURSIVE Unit_init_tokens(_, _, _, _)
\* the token loop of Unit.__init__: tokens still to read, the numerator flag
\* and the products accumulated so far
Unit_init_tokens(tokens, numerator, n, d) ==
    IF tokens = <<>> THEN Made("Unit", n, d)
    ELSE
    LET token0 == Head(tokens)
        rest   == Tail(tokens)
    IN  IF token0 = <<"1">> THEN Unit_init_tokens(rest, numerator, n, d)
        ELSE IF token0 = <<"/">> THEN Unit_init_tokens(rest, FALSE, n, d)
        ELSE
        LET pos   == findStarStar(token0)
            lit   == IF pos = -1 THEN [ok |-> TRUE, val |-> 1]
                     ELSE parseInt(SubSeq(token0, pos + 3, Len(token0)))
            token == IF pos = -1 THEN token0 ELSE SubSeq(token0, 1, pos)
            hits  == {i \in 1..Len(namesDict) : namesDict[i].name = token}
        IN  IF ~lit.ok THEN Raised("ValueError")
            ELSE IF hits = {} THEN Raised("ValueError")
            ELSE
            LET e == namesDict[CHOOSE i \in hits : TRUE]
            IN  IF numerator
                THEN Unit_init_tokens(rest, numerator,
                                      n * ipow(e.num, lit.val),
                                      d * ipow(e.den, lit.val))
                ELSE Unit_init_tokens(rest, numerator,
                                      n * ipow(e.den, lit.val),
                                      d * ipow(e.num, lit.val))

\* Unit.__init__ with a string
Unit_init_str(text) ==
    LET unit == IF text = <<"O", "h", "m">> THEN <<"Omega">> ELSE text
    IN  IF count(unit, "/") > 1 THEN Raised("ValueError")
        ELSE Unit_init_tokens(split(removeParens(unit), " "), TRUE, 1, 1)

\* Unit.isUnitless
isUnitless(u) == u.num = 1 /\ u.den = 1

\* Unit.__mul__ with the cross products of __truediv__ pasted in
Unit_mul_crossed(self, other) ==
    Unit_init_tuple(self.num * other.den, self.den * other.num)

\* Unit.__mul__
Unit_mul(self, other) ==
    Unit_init_tuple(self.num * other.num, self.den * other.den)

\* Unit.__truediv__
Unit_truediv(self, other) ==
    Unit_init_tuple(self.num * other.den, self.den * other.num)

\* Unit.__rtruediv__ with other = 1, as in 1 / unit
Unit_rtruediv_one(self) == Unit_init_tuple(self.den, self.num)

\* int( x**k ) for an integer x >= 0 and an integer k <= -1: Python computes
\* a float, 1.0 for x = 1 and a value strictly between 0 and 1 for x >= 2,
\* and raises ZeroDivisionError for x = 0; -1 stands for that exception
negPowTruncated(x) == IF x = 0 THEN -1 ELSE IF x = 1 THEN 1 ELSE 0

\* x**(k/2) for integers x >= 0 and k >= 1 when that real power is an
\* integer, else -1 (the test int( num ) != num of the source)
halfPow(x, k) ==
    IF k % 2 = 0 THEN ipow(x, k \div 2)
    ELSE IF isqrt(x) = -1 THEN -1
    ELSE ipow(isqrt(x), k)

\* Unit.__pow__ with power = p2 / 2
Unit_pow(self, p2) ==
    IF self.num = 1 /\ self.den = 1 THEN Made("Unit", 1, 1)
    ELSE IF p2 >= 2 /\ p2 % 2 = 0
    THEN Unit_init_tuple(ipow(self.num, p2 \div 2), ipow(self.den, p2 \div 2))
    ELSE IF p2 <= -2 /\ p2 % 2 = 0
    THEN LET den == negPowTruncated(self.num)
             num == negPowTruncated(self.den)
         IN  IF den = -1 \/ num = -1 THEN Raised("ZeroDivisionError")
             ELSE Unit_init_tuple(num, den)
    ELSE IF p2 = 0 THEN Made("tuple", 1, 1)
    ELSE IF p2 > 0
    THEN LET num == halfPow(self.num, p2)
             den == halfPow(self.den, p2)
         IN  IF num = -1 \/ den = -1 THEN Raised("ValueError")
             ELSE Unit_init_tuple(num, den)
    ELSE LET den == halfPow(self.num, -p2)
             num == halfPow(self.den, -p2)
         IN  IF num = -1 \/ den = -1 THEN Raised("ValueError")
             ELSE Unit_init_tuple(num, den)

\* Unit.__eq__ between two Unit objects
Unit_eq(self, other) == self.num = other.num /\ self.den = other.den

\* Unit.__ne__ between two Unit objects
Unit_ne(self, other) == self.num # other.num \/ self.den # other.den

\* what Unit.__str__ and Unit.__components return: a text, or a KeyError
Text(t) == [exc |-> "none", text |-> t]

NoText(e) == [exc |-> e, text |-> <<>>]

\* Unit.__baseDict[i]
baseName(i) ==
    LET hits == {k \in 1..Len(baseDict) : baseDict[k].p = i}
    IN  IF hits = {} THEN NoText("KeyError")
        ELSE Text(baseDict[CHOOSE k \in hits : TRUE].name)

RECURSIVE factorLoop(_, _, _)
\* the factoring loop of Unit.__components and the statement after it: the
\* names of the prime factors of n, each followed by a blank
factorLoop(i, n, components) ==
    IF i * i <= n
    THEN IF n % i # 0 THEN factorLoop(i + 1, n, components)
         ELSE IF baseName(i).exc # "none" THEN baseName(i)
         ELSE factorLoop(i, n \div i, components \o baseName(i).text \o <<" ">>)
    ELSE IF n > 1
    THEN IF baseName(n).exc # "none" THEN baseName(n)
         ELSE Text(components \o baseName(n).text \o <<" ">>)
    ELSE Text(components)

RECURSIVE runLoop(_, _, _, _)
\* the inner loop of Unit.__components: counts the run of item in the list
\* l from the (1-based) position index on
runLoop(l, item, index, cnt) ==
    IF l[index] # item THEN [index |-> index, cnt |-> cnt]
    ELSE IF index + 1 > Len(l) THEN [index |-> index + 1, cnt |-> cnt + 1]
    ELSE runLoop(l, item, index + 1, cnt + 1)

\* the name alone, without its count
powerText_once(item, cnt) == item

\* "{0}**{1}".format( item, count )
powerText(item, cnt) == item \o <<"*", "*">> \o intText(cnt)

RECURSIVE collapseLoop(_, _, _)
\* the outer loop of Unit.__components: every run of equal names in l is
\* replaced in the text by name**count
collapseLoop(l, index, components) ==
    IF index >= Len(l) THEN components
    ELSE IF l[index + 1] # l[index] THEN collapseLoop(l, index + 1, components)
    ELSE collapseLoop(l, runLoop(l, l[index], index + 1, 1).index,
             replace(components,
                     strip(repeated(l[index] \o <<" ">>,
                                    runLoop(l, l[index], index + 1, 1).cnt)),
                     powerText(l[index],
                               runLoop(l, l[index], index + 1, 1).cnt)))

\* Unit.__components( n )
Unit_components(n) ==
    IF factorLoop(2, n, <<>>).exc # "none" THEN factorLoop(2, n, <<>>)
    ELSE Text(collapseLoop(split(strip(factorLoop(2, n, <<>>).text), " "), 1,
                           strip(factorLoop(2, n, <<>>).text)))

\* the name __namesDict holds for the key (num, den), or a KeyError
nameOf(num, den) ==
    LET hits == {k \in 1..Len(namesDict) :
                    namesDict[k].num = num /\ namesDict[k].den = den}
    IN  IF hits = {} THEN NoText("KeyError")
        ELSE Text(namesDict[CHOOSE k \in hits : TRUE].name)

\* the end of Unit.__str__: numerator and denominator text joined, the
\* denominator in parentheses when it has more than one term, and the Ohm
\* sign replaced when strictAscii is set
joined(retstrNum, retstrDen, strictAscii) ==
    LET retstr == IF retstrDen # <<>>
                  THEN IF Len(split(retstrDen, " ")) = 1
                       THEN retstrNum \o <<" ", "/", " ">> \o retstrDen
                       ELSE retstrNum \o <<" ", "/", " ", "(">> \o retstrDen \o <<")">>
                  ELSE retstrNum
    IN  Text(IF strictAscii THEN replace(retstr, <<"Omega">>, <<"O", "h", "m">>)
             ELSE retstr)

\* Unit.__str__ when neither (num, den) nor (den, num) is a key of the table
Unit_str_factored(self, strictAscii) ==
    IF Unit_components(self.num).exc # "none" THEN Unit_components(self.num)
    ELSE IF Unit_components(self.den).exc # "none" THEN Unit_components(self.den)
    ELSE joined(IF Unit_components(self.num).text = <<>> THEN <<"1">>
                ELSE Unit_components(self.num).text,
                Unit_components(self.den).text, strictAscii)

\* Unit.__str__ of a Unit object that was constructed with strictAscii
Unit_str(self, strictAscii) ==
    IF self.num = 1 /\ self.den = 1 THEN Text(<<>>)
    ELSE IF nameOf(self.num, self.den).exc = "none" THEN nameOf(self.num, self.den)
    ELSE IF nameOf(self.den, self.num).exc = "none"
    THEN joined(<<"1">>, nameOf(self.den, self.num).text, strictAscii)
    ELSE Unit_str_factored(self, strictAscii)

----------------------------------------------------------------------------
(* The calls made on SI.Unit                                               *)

\* the Unit object a successful call produced
AsUnit(r) == [num |-> r.num, den |-> r.den]

\* Unit( "" ), the blank unit
BlankUnit == [num |-> 1, den |-> 1]

\* the names of __namesDict other than the blank one
Symbols == {namesDict[i].name : i \in 2..Len(namesDict)}

\* the Unit objects Unit( name ) of the names of __namesDict
TableUnits == {[num |-> namesDict[i].num, den |-> namesDict[i].den] :
                   i \in 1..Len(namesDict)}

\* the Unit objects of the seven base units
BaseUnits == {[num |-> baseDict[i].p, den |-> 1] : i \in 1..Len(baseDict)}

Larger(u) == IF u.num >= u.den THEN u.num ELSE u.den

\* a term of a unit text: a symbol, or a symbol with a "**<int>" suffix
Suffixed(name, k) == name \o <<"*", "*", Digits[k + 1]>>

PoweredTerms ==
    {Suffixed(namesDict[i].name, k) : i \in 2..Len(namesDict), k \in 0..MaxSuffix}
    \ {Suffixed(namesDict[i].name, k) : i \in {j \in 2..Len(namesDict) :
           namesDict[j].num > 17 \/ namesDict[j].den > 17}, k \in 0..MaxSuffix}

Terms == Symbols \cup PoweredTerms

\* texts of one term, and texts the grammar rejects or treats specially
SingleTexts ==
    Terms \cup
    { <<>>,
      <<"O", "h", "m">>,
      <<"1", " ", "/", " ", "s">>,
      <<"1", " ", "/", " ", "Omega">>,
      <<"m", " ", "/", " ", "s", " ", "/", " ", "s">>,
      <<"m", " ", " ", "s">>,
      <<"f", "t">>,
      <<"m", "*", "*", "x">>,
      <<"k", "g", " ", "m", "*", "*", "2", " ", "/", " ",
        "(", "s", "*", "*", "3", " ", "A", ")">>,
      <<"(", "k", "g", " ", "m", ")", " ", "/", " ", "(", "s", "*", "*", "2", ")">>,
      <<"V", " ", "/", " ", "O", "h", "m">> }

\* the two ways two terms are joined: "a b" and "a / b"
Separators == {<<" ">>, <<" ", "/", " ">>}

PairParts ==
    {<<ta, sep, tb>> : ta \in Terms, sep \in Separators, tb \in Symbols}
    \cup {<<ta, sep, tb>> : ta \in {baseDict[i].name : i \in 1..Len(baseDict)},
                            sep \in Separators, tb \in PoweredTerms}

\* the record of a call: operation, operands, text parts and outcome
Call(op, x, y, z, p2, parts, res) ==
    [op |-> op, x |-> x, y |-> y, z |-> z, p2 |-> p2, parts |-> parts, res |-> res]

NoCall == Call("none", BlankUnit, BlankUnit, BlankUnit, 0, <<>>, Made("Unit", 1, 1))

Constructions == {"parse", "parsePair", "tuple"}

\* a call's outcome becomes the current Unit object when it is one
Keep(res) == IF res.exc = "none" /\ res.kind = "Unit" THEN AsUnit(res) ELSE acc

\* operands are the current Unit object and the Unit objects of the table
Operands == (IF Larger(acc) <= MaxNum THEN {acc} ELSE {}) \cup TableUnits

UnitIdle == UNCHANGED <<pfx, objs, dicts, qlast, eobj, iter>>

\* u = Unit( text )
UnitParse ==
    /\ last.op = "none"
    /\ \E text \in SingleTexts :
         LET res == Unit_init_str(text)
         IN  /\ last' = Call("parse", BlankUnit, BlankUnit, BlankUnit, 0, <<text>>, res)
             /\ acc' = Keep(res)
    /\ UnitIdle

\* u = Unit( "<ta> <tb>" ) and u = Unit( "<ta> / <tb>" )
UnitParsePair ==
    /\ last.op = "none"
    /\ \E parts \in PairParts :
         LET res == Unit_init_str(parts[1] \o parts[2] \o parts[3])
         IN  /\ last' = Call("parsePair", BlankUnit, BlankUnit, BlankUnit, 0, parts, res)
             /\ acc' = Keep(res)
    /\ UnitIdle

\* u = Unit( (num, den) )
UnitFromTuple ==
    /\ last.op = "none"
    /\ \E n \in 1..MaxTuple, d \in 1..MaxTuple :
         LET res == Unit_init_tuple(n, d)
         IN  /\ last' = Call("tuple", [num |-> n, den |-> d], BlankUnit, BlankUnit,
                             0, <<>>, res)
             /\ acc' = Keep(res)
    /\ UnitIdle

\* u = x * y
UnitMul ==
    /\ last.op \in Constructions
    /\ \E y \in TableUnits :
         LET res == Unit_mul(acc, y)
         IN  /\ Larger(acc) <= MaxNum
             /\ last' = Call("mul", acc, y, BlankUnit, 0, <<>>, res)
             /\ acc' = Keep(res)
    /\ UnitIdle

\* u = (x * y) * z
UnitMul3 ==
    /\ last.op \in Constructions
    /\ \E y \in BaseUnits \cup {acc}, z \in BaseUnits \cup {acc} :
         LET xy  == Unit_mul(acc, y)
             res == IF xy.exc = "none" THEN Unit_mul(AsUnit(xy), z) ELSE xy
         IN  /\ Larger(acc) <= MaxNum \div 32
             /\ last' = Call("mul3", acc, y, z, 0, <<>>, res)
             /\ acc' = Keep(res)
    /\ UnitIdle

\* u = x / y
UnitTruediv ==
    /\ last.op \in Constructions
    /\ \E y \in TableUnits :
         LET res == Unit_truediv(acc, y)
         IN  /\ Larger(acc) <= MaxNum
             /\ last' = Call("truediv", acc, y, BlankUnit, 0, <<>>, res)
             /\ acc' = Keep(res)
    /\ UnitIdle

\* u = 1 / x
UnitRtruediv ==
    /\ last.op \in Constructions \cup {"pow"}
    /\ LET res == Unit_rtruediv_one(acc)
       IN  /\ last' = Call("rtruediv", acc, BlankUnit, BlankUnit, 0, <<>>, res)
           /\ acc' = Keep(res)
    /\ UnitIdle

\* u = x ** (p2 / 2)
UnitPow ==
    /\ last.op \in Constructions \cup {"pow"}
    /\ \E p2 \in (-MaxPow2)..MaxPow2 :
         LET res == Unit_pow(acc, p2)
         IN  /\ Larger(acc) <= MaxNum
             /\ ipow(Larger(acc), (IF p2 < 0 THEN -p2 ELSE p2) \div 2) <= MaxNum
             /\ last' = Call("pow", acc, BlankUnit, BlankUnit, p2, <<>>, res)
             /\ acc' = Keep(res)
    /\ UnitIdle

\* u = x * x ** -1
UnitMulInverse ==
    /\ last.op \in Constructions
    /\ LET inv == Unit_pow(acc, -2)
           res == IF inv.exc = "none" THEN Unit_mul(acc, AsUnit(inv)) ELSE inv
       IN  /\ Larger(acc) <= MaxNum
           /\ last' = Call("mulInverse", acc, BlankUnit, BlankUnit, -2, <<>>, res)
           /\ acc' = Keep(res)
    /\ UnitIdle

\* the record of a call that renders a Unit object: the object, the
\* strictAscii it was constructed with, the text returned, and the outcome
StrCall(op, x, strictAscii, out, res) ==
    [op |-> op, x |-> x, y |-> BlankUnit, z |-> BlankUnit, p2 |-> 0,
     parts |-> <<>>, res |-> res, strictAscii |-> strictAscii, out |-> out]

Renderings == {"str", "roundTrip"}

\* the current Unit object is what the last call returned; a constructor
\* call may have set strictAscii, an operator never passes it on
Rendered ==
    /\ last.op \notin {"none"} \cup Renderings
    /\ last.res.exc = "none"
    /\ last.res.kind = "Unit"

FlagsOf(op) == IF op \in Constructions THEN BOOLEAN ELSE {FALSE}

\* t = str( u ) of a Unit object as its constructor returned it; the text of
\* any other Unit object is taken by UnitRoundTrip
UnitStr ==
    /\ Rendered
    /\ last.op \in Constructions
    /\ \E strictAscii \in FlagsOf(last.op) :
         LET t == Unit_str(acc, strictAscii)
         IN  last' = StrCall("str", acc, strictAscii, t.text,
                             IF t.exc = "none" THEN Made("str", acc.num, acc.den)
                             ELSE Raised(t.exc))
    /\ acc' = acc
    /\ UnitIdle

\* v = Unit( str( u ) )
UnitRoundTrip ==
    /\ Rendered
    /\ \E strictAscii \in FlagsOf(last.op) :
         LET t == Unit_str(acc, strictAscii)
         IN  last' = StrCall("roundTrip", acc, strictAscii, t.text,
                             IF t.exc = "none" THEN Unit_init_str(t.text)
                             ELSE Raised(t.exc))
    /\ acc' = acc
    /\ UnitIdle

\* the caller drops its objects and starts over
UnitReset ==
    /\ last.op # "none"
    /\ last' = NoCall
    /\ acc' = BlankUnit
    /\ UnitIdle

PrefixNone == [op |-> "none"]

InitUnit ==
    /\ acc = BlankUnit
    /\ last = NoCall
    /\ pfx = PrefixNone
    /\ objs = <<>>
    /\ dicts = <<>>
    /\ qlast = [op |-> "none"]
    /\ eobj = [op |-> "none"]
    /\ iter = [state |-> "none"]

NextUnit ==
    \/ UnitParse
    \/ UnitParsePair
    \/ UnitFromTuple
    \/ UnitMul
    \/ UnitMul3
    \/ UnitTruediv
    \/ UnitRtruediv
    \/ UnitPow
    \/ UnitMulInverse
    \/ UnitStr
    \/ UnitRoundTrip
    \/ UnitReset

SpecUnit == InitUnit /\ [][NextUnit]_vars

----------------------------------------------------------------------------
(* Properties of the Dimension algebra (SI.Unit), checked under SpecUnit   *)

\* a Dimension as the data model describes it: positive components in
\* lowest terms
WellFormed(u) == u.num >= 1 /\ u.den >= 1 /\ gcd(u.num, u.den) = 1

\* C1: every Unit object that is reached - parsed from a unit text, built
\* from a (numerator, denominator) pair, or returned by *, /, 1/x or ** -
\* has positive components with gcd 1, and reports itself unitless exactly
\* when its numerator and denominator cancel completely.
C1_ReachedUnitsInLowestTerms ==
    /\ WellFormed(acc)
    /\ isUnitless(acc) <=> (acc.num = acc.den)

\* C2: a text of two terms parses to the product (for "a b") or the
\* quotient (for "a / b") of what the two terms parse to, under Unit.__eq__.
C2_ParsingIsAlgebra ==
    (last.op = "parsePair" /\ last.res.exc = "none") =>
        LET a == AsUnit(Unit_init_str(last.parts[1]))
            b == AsUnit(Unit_init_str(last.parts[3]))
            expected == IF last.parts[2] = <<" ">> THEN Unit_mul(a, b)
                        ELSE Unit_truediv(a, b)
        IN  Unit_eq(AsUnit(last.res), AsUnit(expected))

\* C3: for a Dimension d and an integer p >= 1, d ** -p is the reciprocal of
\* d ** p, and d * d ** -1 is dimensionless.
C3_NegativePowerIsReciprocal ==
    /\ (last.op = "pow" /\ WellFormed(last.x) /\ last.p2 <= -2 /\ last.p2 % 2 = 0) =>
          LET positive == Unit_pow(last.x, -last.p2)
          IN  /\ positive.exc = "none"
              /\ last.res = Unit_rtruediv_one(AsUnit(positive))
    /\ (last.op = "mulInverse" /\ WellFormed(last.x)) =>
          /\ last.res.exc = "none"
          /\ isUnitless(AsUnit(last.res))

\* C4: multiplication of Dimensions is commutative and associative: x * y
\* equals y * x, and (x * y) * z equals x * (y * z).
C4_MulCommutativeAssociative ==
    /\ last.op = "mul" => last.res = Unit_mul(last.y, last.x)
    /\ last.op = "mul3" =>
          LET yz == Unit_mul(last.y, last.z)
          IN  last.res = IF yz.exc = "none" THEN Unit_mul(last.x, AsUnit(yz)) ELSE yz

\* C4 witness: a product of three different Dimensions was formed in which a
\* denominator of the first operand cancelled
C4_Witness ==
    /\ last.op = "mul3"
    /\ ~isUnitless(last.x) /\ last.x.den > 1
    /\ last.x # last.y /\ last.y # last.z /\ last.x # last.z
    /\ last.res.exc = "none" /\ last.res.den = 1

\* the real power x**(k/2) is an integer
RealPowIsInteger(x, k) == k % 2 = 0 \/ isqrt(x) # -1

\* C5: a non-integer power of a Dimension succeeds exactly when numerator
\* and denominator raised to |p| are both integers and otherwise raises the
\* unrepresentable-power error without producing a Dimension, while every
\* integer power succeeds (power 0 gives the dimensionless unit).
C5_PowerSucceedsWhenRepresentable ==
    (last.op = "pow" /\ WellFormed(last.x)) =>
        LET k  == IF last.p2 < 0 THEN -last.p2 ELSE last.p2
            ok == last.res.exc = "none" /\ last.res.kind \in {"Unit", "tuple"}
        IN  /\ last.p2 % 2 = 0 => ok
            /\ last.p2 % 2 = 1 =>
                  /\ ok <=> (RealPowIsInteger(last.x.num, k)
                               /\ RealPowIsInteger(last.x.den, k))
                  /\ ~ok => last.res = Raised("ValueError")

\* whether the text shows the Ohm sign
ShowsOhmSign(t) == \E i \in 1..Len(t) : t[i] = "Omega"

\* C21: in ASCII-only mode the string form of a Dimension never shows the
\* Ohm sign: it is the rendering without the mode in which every Ohm sign
\* is written "Ohm"
C21_AsciiRendering ==
    (last.op = "str" /\ last.strictAscii /\ last.res.exc = "none")
        => /\ ~ShowsOhmSign(last.out)
           /\ last.out = replace(Unit_str(last.x, FALSE).text,
                                 <<"Omega">>, <<"O", "h", "m">>)

\* the text a call of Unit( text ) was given
TextOf(call) == IF call.op = "parse" THEN call.parts[1]
                ELSE call.parts[1] \o call.parts[2] \o call.parts[3]

\* the text with every Ohm sign written "Ohm"
WithOhmWord(t) == replace(t, <<"Omega">>, <<"O", "h", "m">>)

\* C22: "Ohm" is an input synonym of the Ohm sign: a unit text that parses
\* with an Ohm sign (alone, with a "**<int>" suffix, or as a term of a
\* compound) parses to the same Dimension with "Ohm" written in its place
C22_OhmSynonym ==
    (/\ last.op \in {"parse", "parsePair"}
     /\ ShowsOhmSign(TextOf(last))
     /\ last.res.exc = "none")
        => Unit_init_str(WithOhmWord(TextOf(last))) = last.res

\* C28: rendering and parsing are inverse: a Unit object in lowest terms,
\* rendered by its table name, in the "1 / <name>" form or in the factored
\* form, is parsed back to the same numerator and denominator
C28_RenderParseInverse ==
    (last.op = "roundTrip" /\ WellFormed(last.x))
        => last.res = Made("Unit", last.x.num, last.x.den)

\* the text t holds the name ch
Holds(t, ch) == \E i \in 1..Len(t) : t[i] = ch

\* the text t holds an m that is not the m of mol
HoldsMetre(t) ==
    \E i \in 1..Len(t) : t[i] = "m" /\ (i = Len(t) \/ t[i + 1] # "o")

\* a Unit object with m and mol, a "**<count>" and a parenthesized
\* denominator has been rendered and parsed back
C28_Witness ==
    /\ last.op = "roundTrip"
    /\ WellFormed(last.x)
    /\ Holds(last.out, "o")
    /\ HoldsMetre(last.out)
    /\ Holds(last.out, "(")
    /\ Holds(last.out, "*")
    /\ last.res = Made("Unit", last.x.num, last.x.den)

----------------------------------------------------------------------------
(* Numbers: a Python float is modelled as an exact decimal m * 10**e, held *)
(* as [m, e] with m not divisible by 10 (and [0, 0] for zero)              *)

RECURSIVE Dec(_, _)
\* the decimal m * 10**e in normal form
Dec(m, e) == IF m = 0 THEN [m |-> 0, e |-> 0]
             ELSE IF m % 10 = 0 THEN Dec(m \div 10, e + 1)
             ELSE [m |-> m, e |-> e]

absInt(i) == IF i < 0 THEN -i ELSE i

RECURSIVE ndigits(_)
\* the number of decimal digits of an integer i >= 1
ndigits(i) == IF i < 10 THEN 1 ELSE 1 + ndigits(i \div 10)

\* abs( number )
decAbs(x) == [m |-> absInt(x.m), e |-> x.e]

\* number * 10**k and number / 10**(-k)
decScale(x, k) == IF x.m = 0 THEN x ELSE [m |-> x.m, e |-> x.e + k]

\* number * sign for sign = 1 or -1
decTimesSign(x, sign) == [m |-> sign * x.m, e |-> x.e]

\* math.copysign( 1, number )
copysign1(x) == IF x.m < 0 THEN -1 ELSE 1

\* math.floor( math.log10( absval ) ) for absval > 0
floorLog10(x) == x.e + ndigits(x.m) - 1

\* x < y for decimals x, y >= 0
decLessNonNeg(x, y) ==
    IF x.m = 0 THEN y.m > 0
    ELSE IF y.m = 0 THEN FALSE
    ELSE IF floorLog10(x) # floorLog10(y) THEN floorLog10(x) < floorLog10(y)
    ELSE IF x.e <= y.e THEN x.m < y.m * ipow(10, y.e - x.e)
    ELSE x.m * ipow(10, x.e - y.e) < y.m

\* x < y for decimals
decLess(x, y) ==
    IF x.m < 0 /\ y.m >= 0 THEN TRUE
    ELSE IF x.m >= 0 /\ y.m < 0 THEN FALSE
    ELSE IF x.m >= 0 THEN decLessNonNeg(x, y)
    ELSE decLessNonNeg(decAbs(y), decAbs(x))

\* round( x ) for a decimal x >= 0: the nearest integer, ties to the even one
roundNonNeg(x) ==
    IF x.e >= 0 THEN x
    ELSE IF -x.e > ndigits(x.m) THEN Dec(0, 0)
    ELSE LET unit == ipow(10, -x.e)
             q    == x.m \div unit
             r    == x.m % unit
         IN  IF 2 * r > unit \/ (2 * r = unit /\ q % 2 = 1)
             THEN Dec(q + 1, 0) ELSE Dec(q, 0)

\* round( x )
decRound(x) == decTimesSign(roundNonNeg(decAbs(x)), copysign1(x))

\* float( text ) for a literal [sign] digits [ "." digits ]: [ok, val]; any
\* other text is a ValueError (exponents, inf and nan are outside the
\* modelled inputs)
parseFloat(s) ==
    LET signed == s # <<>> /\ Head(s) \in {"-", "+"}
        body   == IF signed THEN Tail(s) ELSE s
        dots   == {i \in 1..Len(body) : body[i] = "."}
        dot    == IF dots = {} THEN Len(body) + 1 ELSE CHOOSE i \in dots : TRUE
        whole  == SubSeq(body, 1, dot - 1)
        frac   == SubSeq(body, dot + 1, Len(body))
        sgn    == IF signed /\ Head(s) = "-" THEN -1 ELSE 1
    IN  IF /\ Cardinality(dots) <= 1
           /\ Len(whole) + Len(frac) >= 1
           /\ \A i \in 1..Len(whole) : IsDigit(whole[i])
           /\ \A i \in 1..Len(frac) : IsDigit(frac[i])
        THEN [ok |-> TRUE,
              val |-> Dec(sgn * digitsValue(whole \o frac, 0), -Len(frac))]
        ELSE [ok |-> FALSE, val |-> Dec(0, 0)]

----------------------------------------------------------------------------
(* SI.Prefix                                                               *)

\* what a call of the Prefix class returns: a (number, unit) tuple, or an
\* exception
Tuple(number, unit) == [exc |-> "none", number |-> number, unit |-> unit]

PrefixRaised(e) == [exc |-> e, number |-> Dec(0, 0), unit |-> <<>>]

\* the dict prefixes of normalizeTuple: prefix character -> power of ten
prefixes == <<[ch |-> <<"y">>, power |-> -24], [ch |-> <<"z">>, power |-> -21],
              [ch |-> <<"a">>, power |-> -18], [ch |-> <<"f">>, power |-> -15],
              [ch |-> <<"p">>, power |-> -12], [ch |-> <<"n">>, power |-> -9],
              [ch |-> <<"u">>, power |-> -6],  [ch |-> <<"mu">>, power |-> -6],
              [ch |-> <<"m">>, power |-> -3],  [ch |-> <<"c">>, power |-> -2],
              [ch |-> <<>>, power |-> 0],      [ch |-> <<"k">>, power |-> 3],
              [ch |-> <<"M">>, power |-> 6],   [ch |-> <<"G">>, power |-> 9],
              [ch |-> <<"T">>, power |-> 12],  [ch |-> <<"P">>, power |-> 15],
              [ch |-> <<"E">>, power |-> 18],  [ch |-> <<"Z">>, power |-> 21],
              [ch |-> <<"Y">>, power |-> 24]>>

\* prefixes[prefix]: [found, power]; found = FALSE is the KeyError
prefixPower(prefix) ==
    LET hits == {i \in 1..Len(prefixes) : prefixes[i].ch = prefix}
    IN  IF hits = {} THEN [found |-> FALSE, power |-> 0]
        ELSE [found |-> TRUE, power |-> prefixes[CHOOSE i \in hits : TRUE].power]

\* normalizeTuple, lines 599-607, with the number left as it was
massToKg_unscaled(number, baseUnit) ==
    IF baseUnit = <<"t">> THEN [number |-> number, baseUnit |-> <<"k", "g">>]
    ELSE IF baseUnit = <<"g">> THEN [number |-> number, baseUnit |-> <<"k", "g">>]
    ELSE [number |-> number, baseUnit |-> baseUnit]

\* normalizeTuple, lines 599-607: g and t are converted to kg
massToKg(number, baseUnit) ==
    IF baseUnit = <<"t">>
    THEN [number |-> decScale(number, 3), baseUnit |-> <<"k", "g">>]
    ELSE IF baseUnit = <<"g">>
    THEN [number |-> decScale(number, -3), baseUnit |-> <<"k", "g">>]
    ELSE [number |-> number, baseUnit |-> baseUnit]

\* normalizeTuple, lines 609-614: the Ohm sign by strictAscii
ohmByAscii(baseUnit, strictAscii) ==
    IF baseUnit = <<"Omega">> /\ strictAscii THEN <<"O", "h", "m">>
    ELSE IF baseUnit = <<"O", "h", "m">> /\ ~strictAscii THEN <<"Omega">>
    ELSE baseUnit

\* Prefix.normalizeTuple for a float value and a string unit
normalizeTuple(value, unit0, strictAscii) ==
    LET unit     == strip(unit0)
        split1   == Len(unit) > 1
                    /\ unit \notin {<<"k", "g">>, <<"c", "a", "l">>,
                                    <<"m", "o", "l">>, <<"c", "d">>}
        prefix   == IF split1 THEN <<Head(unit)>> ELSE <<>>
        looked   == prefixPower(prefix)
        baseUnit == IF split1 /\ looked.found THEN Tail(unit) ELSE unit
        power    == IF looked.found THEN looked.power ELSE 0
        number   == decScale(value, power)
    IN  IF baseUnit # <<>>
        THEN LET kg == massToKg(number, baseUnit)
             IN  Tuple(kg.number, ohmByAscii(kg.baseUnit, strictAscii))
        ELSE Tuple(number, baseUnit)

\* Prefix.fromString
fromString(string, strictAscii) ==
    LET tokenList == split(string, " ")
    IN  IF Len(tokenList) = 1
        THEN IF parseFloat(string).ok
             THEN Tuple(parseFloat(string).val, <<>>)
             ELSE PrefixRaised("ValueError")
        ELSE IF Len(tokenList) # 2 THEN PrefixRaised("ValueError")
        ELSE IF ~parseFloat(tokenList[1]).ok THEN PrefixRaised("ValueError")
        ELSE normalizeTuple(parseFloat(tokenList[1]).val, tokenList[2], strictAscii)

\* the dict prefixes of standardizeTuple: power of ten -> prefix character
prefixesOut(strictAscii) ==
    <<[power |-> -24, ch |-> <<"y">>], [power |-> -21, ch |-> <<"z">>],
      [power |-> -18, ch |-> <<"a">>], [power |-> -15, ch |-> <<"f">>],
      [power |-> -12, ch |-> <<"p">>], [power |-> -9, ch |-> <<"n">>],
      [power |-> -6, ch |-> IF strictAscii THEN <<"u">> ELSE <<"mu">>],
      [power |-> -3, ch |-> <<"m">>],  [power |-> -2, ch |-> <<"c">>],
      [power |-> 0, ch |-> <<>>],      [power |-> 3, ch |-> <<"k">>],
      [power |-> 6, ch |-> <<"M">>],   [power |-> 9, ch |-> <<"G">>],
      [power |-> 12, ch |-> <<"T">>],  [power |-> 15, ch |-> <<"P">>],
      [power |-> 18, ch |-> <<"E">>],  [power |-> 21, ch |-> <<"Z">>],
      [power |-> 24, ch |-> <<"Y">>]>>

\* prefixes[prefixIndex]: [found, ch]; found = FALSE is the KeyError
prefixChar(prefixIndex, strictAscii) ==
    LET table == prefixesOut(strictAscii)
        hits  == {i \in 1..Len(table) : table[i].power = prefixIndex}
    IN  IF hits = {} THEN [found |-> FALSE, ch |-> <<>>]
        ELSE [found |-> TRUE, ch |-> table[CHOOSE i \in hits : TRUE].ch]

\* the power of ten of the prefix taken as the multiple of 3 nearest to power10
choosePrefixIndex_nearest(baseUnit, power10, integerBits) ==
    IF baseUnit = <<"m">> /\ power10 \in {-1, -2}
       /\ (integerBits = <<>> \/ integerBits = <<0>>)
    THEN -2
    ELSE ((power10 + 1) \div 3) * 3

\* standardizeTuple, lines 663-670: the power of ten of the prefix
choosePrefixIndex(baseUnit, power10, integerBits) ==
    IF baseUnit = <<"m">> /\ power10 \in {-1, -2}
       /\ (integerBits = <<>> \/ integerBits = <<0>>)
    THEN -2
    ELSE (power10 \div 3) * 3

\* standardizeTuple, lines 672-681, with the value left in kg
standardizeMass_unscaled(baseUnit, absval, prefixIndex) ==
    IF baseUnit # <<"k", "g">>
    THEN [baseUnit |-> baseUnit, absval |-> absval, prefixIndex |-> prefixIndex]
    ELSE IF prefixIndex >= 3 /\ prefixIndex <= 27
    THEN [baseUnit |-> <<"t">>, absval |-> absval, prefixIndex |-> prefixIndex - 3]
    ELSE IF prefixIndex < 0 /\ prefixIndex >= -27
    THEN [baseUnit |-> <<"g">>, absval |-> absval, prefixIndex |-> prefixIndex + 3]
    ELSE [baseUnit |-> baseUnit, absval |-> absval, prefixIndex |-> prefixIndex]

\* standardizeTuple, lines 672-681: the g, kg, t ladder for masses
standardizeMass(baseUnit, absval, prefixIndex) ==
    IF baseUnit # <<"k", "g">>
    THEN [baseUnit |-> baseUnit, absval |-> absval, prefixIndex |-> prefixIndex]
    ELSE IF prefixIndex >= 3 /\ prefixIndex <= 27
    THEN [baseUnit |-> <<"t">>, absval |-> decScale(absval, -3),
          prefixIndex |-> prefixIndex - 3]
    ELSE IF prefixIndex < 0 /\ prefixIndex >= -27
    THEN [baseUnit |-> <<"g">>, absval |-> decScale(absval, 3),
          prefixIndex |-> prefixIndex + 3]
    ELSE [baseUnit |-> baseUnit, absval |-> absval, prefixIndex |-> prefixIndex]

\* standardizeTuple, lines 688-691: the largest value of the integer
integerMaxval(bits) == IF bits < 0 THEN ipow(2, 1 - bits - 2) - 1
                       ELSE ipow(2, bits) - 1

RECURSIVE integerLoop(_, _, _)
\* standardizeTuple, lines 693-695: the while loop that lowers the step
integerLoop(newval, prefixIndex, maxval) ==
    IF decLess(decScale(decAbs(newval), 3), Dec(maxval, 0))
    THEN integerLoop(decScale(newval, 3), prefixIndex - 3, maxval)
    ELSE [newval |-> newval, prefixIndex |-> prefixIndex]

\* standardizeTuple, line 696: newval = round( newval )
roundFitted(l) == [newval |-> decRound(l.newval), prefixIndex |-> l.prefixIndex]

\* standardizeTuple, lines 687-696: newval fitted to integerBits
fitInteger(newval, prefixIndex, integerBits) ==
    IF integerBits = <<>>
    THEN [newval |-> newval, prefixIndex |-> prefixIndex]
    ELSE roundFitted(integerLoop(newval, prefixIndex,
                                 integerMaxval(integerBits[1])))

\* standardizeTuple, lines 698-704: the prefix character is looked up; the
\* KeyError returns the number with the unit reached so far
lookupPrefix(number, baseUnit, fitted, looked) ==
    IF looked.found THEN Tuple(fitted.newval, looked.ch \o baseUnit)
    ELSE Tuple(number, baseUnit)

\* standardizeTuple, lines 698-706, for the fitted value and prefix index
standardizeFitted(number, baseUnit, fitted, strictAscii) ==
    lookupPrefix(number, baseUnit, fitted,
                 prefixChar(fitted.prefixIndex, strictAscii))

\* standardizeTuple, lines 672-704
standardizeFromMass(number, mass, strictAscii, integerBits) ==
    standardizeFitted(number, mass.baseUnit,
        fitInteger(decTimesSign(decScale(mass.absval, -mass.prefixIndex),
                                copysign1(number)),
                   mass.prefixIndex, integerBits),
        strictAscii)

\* standardizeTuple, lines 650-704, for the normalized number and unit
standardizeNormalized(number, baseUnit, strictAscii, integerBits) ==
    IF baseUnit = <<>> THEN Tuple(number, baseUnit)
    ELSE IF number.m = 0 THEN Tuple(number, baseUnit)
    ELSE standardizeFromMass(number,
             standardizeMass(baseUnit, decAbs(number),
                 choosePrefixIndex(baseUnit, floorLog10(decAbs(number)),
                                   integerBits)),
             strictAscii, integerBits)

\* standardizeTuple, line 648 on, for the tuple normalizeTuple returned
standardizeNorm(norm, strictAscii, integerBits) ==
    standardizeNormalized(norm.number, norm.unit, strictAscii, integerBits)

\* Prefix.standardizeTuple for a float value and a string unit; integerBits
\* is <<>> for None and <<b>> for the integer b
standardizeTuple(value, unit, strictAscii, integerBits) ==
    standardizeNorm(normalizeTuple(value, unit, strictAscii), strictAscii,
                    integerBits)

----------------------------------------------------------------------------
(* The calls made on SI.Prefix                                             *)

\* magnitudes m * 10**e have exponents e from -MaxExp to MaxExp
MaxExp == 30

Mantissas == {1, 5, 25, 47, 999}

Magnitudes ==
    {Dec(0, 0)} \cup
    {Dec(sg * m, e) : sg \in {-1, 1}, m \in Mantissas, e \in (-MaxExp)..MaxExp}

\* numeric literals with the number they denote; ok = FALSE marks a text
\* that is no number
Numerals ==
    { [text |-> <<"2">>, ok |-> TRUE, val |-> Dec(2, 0)],
      [text |-> <<"3", ".", "3">>, ok |-> TRUE, val |-> Dec(33, -1)],
      [text |-> <<"0">>, ok |-> TRUE, val |-> Dec(0, 0)],
      [text |-> <<"-", "5">>, ok |-> TRUE, val |-> Dec(-5, 0)],
      [text |-> <<"0", ".", "5">>, ok |-> TRUE, val |-> Dec(5, -1)],
      [text |-> <<"4", "7", "0", "0">>, ok |-> TRUE, val |-> Dec(47, 2)],
      [text |-> <<"1", ".", "2", ".", "3">>, ok |-> FALSE, val |-> Dec(0, 0)],
      [text |-> <<"x", "1">>, ok |-> FALSE, val |-> Dec(0, 0)] }

\* the prefix characters accepted on input, and no prefix
PrefixChars == {prefixes[i].ch : i \in 1..Len(prefixes)}

\* the unit words that follow a prefix: the names of the table, Ohm, g and t
UnitWords == Symbols \cup {<<"O", "h", "m">>, <<"g">>, <<"t">>}

\* the names of the seven base units
BaseNames == {baseDict[i].name : i \in 1..Len(baseDict)}

\* the values of integerBits: None, and some widths
BitsValues == {<<>>, <<0>>, <<8>>, <<-8>>, <<16>>}

\* the record of a call of the prefix engine
PrefixCall(op, value, unit, ascii, bits, parts, res, back) ==
    [op |-> op, value |-> value, unit |-> unit, ascii |-> ascii, bits |-> bits,
     parts |-> parts, res |-> res, back |-> back]

NoTuple == Tuple(Dec(0, 0), <<>>)

PrefixIdle == UNCHANGED <<acc, last, objs, dicts, qlast, eobj, iter>>

\* Prefix.fromString( "<number> <prefix><unit>" )
PrefixFromString ==
    /\ pfx.op = "none"
    /\ \E nl \in Numerals, P \in PrefixChars, U \in UnitWords, ascii \in BOOLEAN :
         pfx' = PrefixCall("fromString", nl.val, U, ascii, <<>>, <<nl, P>>,
                           fromString(nl.text \o <<" ">> \o P \o U, ascii), NoTuple)
    /\ PrefixIdle

\* Prefix.fromString( "<number>" )
PrefixFromStringOne ==
    /\ pfx.op = "none"
    /\ \E nl \in Numerals, ascii \in BOOLEAN :
         pfx' = PrefixCall("fromStringOne", nl.val, <<>>, ascii, <<>>, <<nl>>,
                           fromString(nl.text, ascii), NoTuple)
    /\ PrefixIdle

\* Prefix.fromString( "<number> <unit> <unit>" )
PrefixFromStringMany ==
    /\ pfx.op = "none"
    /\ \E nl \in Numerals, U \in BaseNames, V \in BaseNames, ascii \in BOOLEAN :
         pfx' = PrefixCall("fromStringMany", nl.val, U, ascii, <<>>, <<nl, V>>,
                           fromString(nl.text \o <<" ">> \o U \o <<" ">> \o V, ascii),
                           NoTuple)
    /\ PrefixIdle

\* Prefix.standardizeTuple( (value, unit), strictAscii, integerBits )
PrefixStandardize ==
    /\ pfx.op = "none"
    /\ \E value \in Magnitudes, U \in UnitWords \cup {<<>>}, ascii \in BOOLEAN,
          bits \in BitsValues :
         /\ bits # <<>> => ~ascii
         /\ pfx' = PrefixCall("standardize", value, U, ascii, bits, <<>>,
                              standardizeTuple(value, U, ascii, bits), NoTuple)
    /\ PrefixIdle

\* Prefix.normalizeTuple( Prefix.standardizeTuple( (value, baseUnit) ) )
PrefixRoundTrip ==
    /\ pfx.op = "none"
    /\ \E value \in Magnitudes, U \in BaseNames, ascii \in BOOLEAN :
         LET std == standardizeTuple(value, U, ascii, <<>>)
         IN  pfx' = PrefixCall("roundTrip", value, U, ascii, <<>>, <<>>, std,
                               normalizeTuple(std.number, std.unit, ascii))
    /\ PrefixIdle

\* the caller starts over
PrefixReset ==
    /\ pfx.op # "none"
    /\ pfx' = PrefixNone
    /\ PrefixIdle

NextPrefix ==
    \/ PrefixFromString
    \/ PrefixFromStringOne
    \/ PrefixFromStringMany
    \/ PrefixStandardize
    \/ PrefixRoundTrip
    \/ PrefixReset

SpecPrefix == InitUnit /\ [][NextPrefix]_vars

----------------------------------------------------------------------------
(* Claims about SI.Prefix                                                  *)

\* C9: prefix selection is reversible: for every base unit U and every
\* magnitude v, standardizeTuple( (v, U) ) succeeds and normalizeTuple of the
\* pair it returns is (v, U) again; this includes the centimetre, the g, kg, t
\* ladder and the magnitudes outside the prefix table
C9_PrefixRoundTrip ==
    pfx.op = "roundTrip" =>
        /\ pfx.res.exc = "none"
        /\ pfx.back = Tuple(pfx.value, pfx.unit)

\* a round trip through a prefixed unit of each special kind: centimetres, a
\* prefixed gram, a prefixed tonne and a mass beyond the table
C9_Witness ==
    /\ pfx.op = "roundTrip"
    /\ pfx.res.unit \in {<<"c", "m">>, <<"m", "g">>, <<"k", "t">>}
    /\ pfx.res.number # pfx.value
    /\ pfx.back = Tuple(pfx.value, pfx.unit)

\* the power of ten of a prefix character, read off the SI table: y z a f p n
\* u m are 10**-24 .. 10**-3, the micro sign is 10**-6, c is 10**-2 and
\* k M G T P E Z Y are 10**3 .. 10**24
StepOf(P) ==
    LET small == <<"y", "z", "a", "f", "p", "n", "u", "m">>
        large == <<"k", "M", "G", "T", "P", "E", "Z", "Y">>
    IN  IF P = <<"mu">> THEN -6
        ELSE IF P = <<"c">> THEN -2
        ELSE IF \E i \in 1..8 : P = <<small[i]>>
        THEN 3 * (CHOOSE i \in 1..8 : P = <<small[i]>>) - 27
        ELSE 3 * (CHOOSE i \in 1..8 : P = <<large[i]>>)

\* the pair fromString is to return for the number v, the step and the unit U
ExpectedPair(v, step, U, ascii) ==
    IF U = <<"g">> THEN Tuple(decScale(v, step - 3), <<"k", "g">>)
    ELSE IF U = <<"t">> THEN Tuple(decScale(v, step + 3), <<"k", "g">>)
    ELSE IF U \in {<<"Omega">>, <<"O", "h", "m">>}
    THEN Tuple(decScale(v, step),
               IF ascii THEN <<"O", "h", "m">> ELSE <<"Omega">>)
    ELSE Tuple(decScale(v, step), U)

RecognizedSymbols ==
    {<<"m">>, <<"k", "g">>, <<"s">>, <<"A">>, <<"K">>, <<"m", "o", "l">>,
     <<"c", "d">>, <<"H", "z">>, <<"N">>, <<"P", "a">>, <<"J">>, <<"W">>,
     <<"C">>, <<"V">>, <<"F">>, <<"O", "h", "m">>, <<"S">>, <<"W", "b">>,
     <<"T">>, <<"H">>, <<"l", "x">>}

\* C11: every recognized unit symbol U is usable without a prefix: for every
\* number v, fromString( "v U" ) succeeds, returns v unscaled and a unit text
\* whose Dimension is that of U; no symbol is read as a prefix and another unit
C11_UnprefixedSymbols ==
    (pfx.op = "fromString" /\ pfx.parts[1].ok /\ pfx.parts[2] = <<>>
       /\ pfx.unit \in RecognizedSymbols) =>
        /\ pfx.res.exc = "none"
        /\ pfx.res.number = pfx.value
        /\ Unit_init_str(pfx.unit).exc = "none"
        /\ Unit_init_str(pfx.res.unit) = Unit_init_str(pfx.unit)

\* the prefix character of a step of the SI table; the micro sign is written u
\* in strict ASCII
PrefixAt(step, ascii) ==
    IF step = 0 THEN <<>>
    ELSE IF step = -6 THEN (IF ascii THEN <<"u">> ELSE <<"mu">>)
    ELSE CHOOSE P \in {<<"y">>, <<"z">>, <<"a">>, <<"f">>, <<"p">>, <<"n">>,
                       <<"m">>, <<"k">>, <<"M">>, <<"G">>, <<"T">>, <<"P">>,
                       <<"E">>, <<"Z">>, <<"Y">>} : StepOf(P) = step

\* the steps of the SI table that are multiples of 3
TableSteps == {3 * k : k \in -8..8}

\* the unit symbols standardize passes through unchanged: the recognized
\* symbols without kg (the mass ladder) and Pa (see C11)
PlainSymbols == RecognizedSymbols \ {<<"k", "g">>, <<"P", "a">>}

\* a call of standardize the general rule of the prefix step applies to: a
\* non-zero number with a plain symbol, integerBits not given, and not a
\* length of centimetres
GeneralStep ==
    /\ pfx.op = "standardize"
    /\ pfx.bits = <<>>
    /\ pfx.value.m # 0
    /\ pfx.unit \in PlainSymbols
    /\ ~(pfx.unit = <<"m">> /\ floorLog10(decAbs(pfx.value)) \in {-1, -2})

\* standardize has returned number / 10**step with the prefix of that step
ScaledBy(step) ==
    pfx.res = Tuple(decScale(pfx.value, -step),
                    PrefixAt(step, pfx.ascii)
                        \o ExpectedPair(pfx.value, 0, pfx.unit, pfx.ascii).unit)

Denotes(number, text, v, U, ascii) ==
    \E P \in PrefixChars, W \in UnitWords :
        /\ text = P \o W
        /\ ExpectedPair(number, IF P = <<>> THEN 0 ELSE StepOf(P), W, ascii)
               = ExpectedPair(v, 0, U, ascii)

\* a call of standardize on a non-zero magnitude whose prefix step lies in the
\* table, integerBits not given
InsideTable ==
    /\ pfx.op = "standardize"
    /\ pfx.bits = <<>>
    /\ pfx.value.m # 0
    /\ pfx.unit # <<>>
    /\ 3 * (floorLog10(decAbs(ExpectedPair(pfx.value, 0, pfx.unit,
                                           pfx.ascii).number)) \div 3)
           \in TableSteps

\* C13: engineering notation: for every unit and every non-zero magnitude whose
\* prefix step lies inside the table, standardize returns a mantissa m with
\* 1 <= |m| < 1000, and the mantissa with the prefixed unit denotes exactly the
\* magnitude that was passed in
C13_EngineeringNotation ==
    InsideTable =>
        /\ pfx.res.exc = "none"
        /\ ~decLess(decAbs(pfx.res.number), Dec(1, 0))
        /\ decLess(decAbs(pfx.res.number), Dec(1, 3))
        /\ Denotes(pfx.res.number, pfx.res.unit, pfx.value, pfx.unit, pfx.ascii)

\* a call of standardize on a mass in kg
OnKilograms ==
    /\ pfx.op = "standardize"
    /\ pfx.unit = <<"k", "g">>

\* the unit texts made of a prefix (or none) in front of the word W
Prefixed(W) == {P \o W : P \in PrefixChars}

\* C14: standardize on kg never returns a prefixed kg; every magnitude below
\* 1 kg is returned in grams with a prefix, every magnitude of 1000 kg or more
\* in tonnes with a prefix, and the magnitudes in between stay in kg
C14_MassLadder ==
    OnKilograms =>
        LET mag == decAbs(pfx.value)
        IN  /\ pfx.res.unit \in Prefixed(<<"k", "g">>) => pfx.res.unit = <<"k", "g">>
            /\ (pfx.bits = <<>> /\ decLess(mag, Dec(1, 0))) =>
                   /\ pfx.res.unit \in Prefixed(<<"g">>) \ {<<"k", "g">>}
                   /\ Denotes(pfx.res.number, pfx.res.unit, pfx.value, pfx.unit,
                              pfx.ascii)
            /\ (pfx.bits = <<>> /\ ~decLess(mag, Dec(1, 3))) =>
                   /\ pfx.res.unit \in Prefixed(<<"t">>)
                   /\ Denotes(pfx.res.number, pfx.res.unit, pfx.value, pfx.unit,
                              pfx.ascii)
            /\ (pfx.bits = <<>> /\ ~decLess(mag, Dec(1, 0)) /\ decLess(mag, Dec(1, 3))) =>
                   pfx.res = Tuple(pfx.value, <<"k", "g">>)

\* the largest magnitude an integer of b bits holds: 2**b - 1 for an unsigned
\* width b >= 0, 2**(|b| - 1) - 1 for a signed width b < 0
LargestOf(b) == IF b >= 0 THEN ipow(2, b) - 1 ELSE ipow(2, (-b) - 1) - 1

\* a call of standardize with integerBits given, on a non-zero number with a unit
WithIntegerBits ==
    /\ pfx.op = "standardize"
    /\ pfx.bits # <<>>
    /\ pfx.value.m # 0
    /\ pfx.unit # <<>>

\* C15: with integerBits = b, standardize returns an integer n that is
\* representable in b bits, |n| <= LargestOf(b), and the step has been lowered
\* by 3 as often as that bound allows: 1000 * |n| would not fit
C15_IntegerFits ==
    WithIntegerBits =>
        /\ pfx.res.exc = "none"
        /\ pfx.res.number.e >= 0
        /\ ~decLess(Dec(LargestOf(pfx.bits[1]), 0), decAbs(pfx.res.number))
        /\ ~decLess(decScale(decAbs(pfx.res.number), 3),
                    Dec(LargestOf(pfx.bits[1]), 0))

\* the step standardize has finally computed for the mass-adjusted value: the
\* one its prefix is looked up with
finalStepOf(mass, number, bits) ==
    fitInteger(decTimesSign(decScale(mass.absval, -mass.prefixIndex),
                            copysign1(number)),
               mass.prefixIndex, bits).prefixIndex

FinalStep(number, unit, bits) ==
    finalStepOf(standardizeMass(unit, decAbs(number),
                    choosePrefixIndex(unit, floorLog10(decAbs(number)), bits)),
                number, bits)

\* a call of standardize on a base unit whose finally computed step has no
\* entry in the prefix table
StepMissing ==
    /\ pfx.op = "standardize"
    /\ pfx.unit \in BaseNames
    /\ pfx.value.m # 0
    /\ FinalStep(pfx.value, pfx.unit, pfx.bits) \notin TableSteps \cup {-2}

\* C16: whenever the finally computed step has no entry in the prefix table,
\* standardize returns exactly the number and the base unit it was passed, with
\* no prefix, for every base unit including kg and also with integerBits given
C16_Fallback ==
    StepMissing => pfx.res = Tuple(pfx.value, pfx.unit)

\* the unit returned carries the centi prefix: it begins with c and is not
\* the candela
UsesCenti(unit) ==
    /\ Len(unit) > 1
    /\ Head(unit) = "c"
    /\ unit # <<"c", "d">>

\* C23: the centi prefix is valid only for length. On input, c in front of m
\* scales the number by 10**-2, and c in front of any other unit is no
\* prefix: the number stays as written and the unit text stays whole. On
\* output, standardizeTuple returns a unit with the prefix c exactly when the
\* unit is m, floor(log10(|number|)) is -1 or -2 and integerBits is not set
C23_CentiOnlyForLength ==
    /\ (/\ pfx.op = "fromString"
        /\ pfx.parts[2] = <<"c">>
        /\ pfx.parts[1].ok)
           => IF pfx.unit = <<"m">>
              THEN pfx.res = Tuple(decScale(pfx.value, -2), <<"m">>)
              ELSE pfx.res = Tuple(pfx.value, <<"c">> \o pfx.unit)
    /\ (pfx.op = "standardize" /\ pfx.res.exc = "none")
           => (UsesCenti(pfx.res.unit)
                 <=> /\ pfx.unit = <<"m">>
                     /\ pfx.value.m # 0
                     /\ floorLog10(decAbs(pfx.value)) \in {-1, -2}
                     /\ pfx.bits = <<>>)

----------------------------------------------------------------------------
(* Arithmetic on numbers; the magnitudes of the model are decimals on      *)
(* which these operations are exact                                        *)

\* x + y
decAdd(x, y) ==
    IF x.e <= y.e THEN Dec(x.m + y.m * ipow(10, y.e - x.e), x.e)
    ELSE Dec(x.m * ipow(10, x.e - y.e) + y.m, y.e)

\* -x
decNeg(x) == [m |-> -x.m, e |-> x.e]

\* x - y
decSub(x, y) == decAdd(x, decNeg(y))

\* x * y
decMul(x, y) == Dec(x.m * y.m, x.e + y.e)

RECURSIVE divExact(_, _, _)
\* m * 10**e / d for integers m >= 0 and d >= 1 whose quotient is a finite
\* decimal
divExact(m, e, d) == IF m % d = 0 THEN Dec(m \div d, e)
                     ELSE divExact(10 * m, e - 1, d)

\* x / y for y # 0
decDiv(x, y) ==
    decTimesSign(divExact(absInt(x.m), x.e - y.e, absInt(y.m)),
                 copysign1(x) * copysign1(y))

\* x**k for an integer k >= 0
decPowInt(x, k) == Dec(ipow(x.m, k), x.e * k)

\* the mantissa of x >= 0 over an even exponent
evenMantissa(x) == IF x.e % 2 = 0 THEN x.m ELSE 10 * x.m

\* x**0.5 for a decimal x >= 0 that is the square of a decimal
decSqrt(x) == Dec(isqrt(evenMantissa(x)),
                  (IF x.e % 2 = 0 THEN x.e ELSE x.e - 1) \div 2)

\* x**(p2 / 2) is a real number and a finite decimal
PowIsDecimal(x, p2) ==
    p2 % 2 = 0 \/ (x.m >= 0 /\ isqrt(evenMantissa(x)) # -1)

\* x**(p2 / 2) for p2 >= 0
decPowHalves(x, p2) ==
    IF p2 % 2 = 0 THEN decPowInt(x, p2 \div 2) ELSE decPowInt(decSqrt(x), p2)

\* x**(p2 / 2) for x # 0 or p2 >= 0
decPow(x, p2) ==
    IF p2 >= 0 THEN decPowHalves(x, p2)
    ELSE decDiv(Dec(1, 0), decPowHalves(x, -p2))

\* a < b, a <= b for numbers
decLessEq(a, b) == decLess(a, b) \/ a = b

RECURSIVE zeros(_)
zeros(k) == IF k <= 0 THEN <<>> ELSE <<"0">> \o zeros(k - 1)

\* the digits of str( x ) for x >= 0
decDigits(x) ==
    IF x.e >= 0 THEN intText(x.m * ipow(10, x.e))
    ELSE intText(x.m \div ipow(10, -x.e)) \o <<".">>
         \o zeros(-x.e - ndigits(x.m % ipow(10, -x.e)))
         \o intText(x.m % ipow(10, -x.e))

\* str( x ) for an int x, or a float x that is no whole number, written
\* without an exponent
decStr(x) == (IF x.m < 0 THEN <<"-">> ELSE <<>>) \o decDigits(decAbs(x))

max(a, b) == IF a >= b THEN a ELSE b

----------------------------------------------------------------------------
(* PObject                                                                 *)

\* the keyword arguments of a constructor call; <<>> is a key not given
NoKwargs == [digits |-> <<>>, precision |-> <<>>, strictAscii |-> <<>>]

\* __init__, lines 434-449: the keys not given are entered with their defaults
withDefaults(kwargs) ==
    [digits      |-> IF kwargs.digits = <<>> THEN 6 ELSE kwargs.digits[1],
     precision   |-> IF kwargs.precision = <<>> THEN 0 ELSE kwargs.precision[1],
     strictAscii |-> IF kwargs.strictAscii = <<>> THEN FALSE
                     ELSE kwargs.strictAscii[1]]

\* __init__, lines 387-398: the keys given override those of the source's dict
overridden(dict, kwargs) ==
    [digits      |-> IF kwargs.digits = <<>> THEN dict.digits
                     ELSE kwargs.digits[1],
     precision   |-> IF kwargs.precision = <<>> THEN dict.precision
                     ELSE kwargs.precision[1],
     strictAscii |-> IF kwargs.strictAscii = <<>> THEN dict.strictAscii
                     ELSE kwargs.strictAscii[1]]

\* what a constructor call gives: the value, the unit and the dict of the new
\* object, or an exception
Built(value, unit, dict) ==
    [exc |-> "none", value |-> value, unit |-> unit, dict |-> dict]

NotBuilt(e) ==
    [exc |-> e, value |-> Dec(0, 0), unit |-> BlankUnit,
     dict |-> withDefaults(NoKwargs)]

\* __init__, lines 434-457, for the outcome u of SI.Unit( unit )
initWithUnit(value, u, kwargs) ==
    IF u.exc # "none" THEN NotBuilt(u.exc)
    ELSE Built(value, AsUnit(u), withDefaults(kwargs))

\* __init__, lines 434-457, for a unit given as a string
initWithUnitText(value, unit, kwargs) ==
    initWithUnit(value, Unit_init_str(unit), kwargs)

\* __init__, lines 370 and 408, for what SI.Prefix.fromString returned
initFromTuple(t, kwargs) ==
    IF t.exc # "none" THEN NotBuilt(t.exc)
    ELSE initWithUnitText(t.number, t.unit, kwargs)

\* __init__, lines 374-375: float( vlist[0] ) and " ".join( vlist[1:] )
initComposite(number, unit, kwargs) ==
    IF ~number.ok THEN NotBuilt("ValueError")
    ELSE initWithUnitText(number.val, unit, kwargs)

\* __init__, lines 366-375, for the token list of the string
initFromTokens(value, vlist, kwargs) ==
    IF Len(vlist) <= 2 THEN initFromTuple(fromString(value, FALSE), kwargs)
    ELSE initComposite(parseFloat(vlist[1]), join(Tail(vlist), <<" ">>), kwargs)

\* PObject( valstring, **kwargs )
PObject_init_str(value, kwargs) ==
    initFromTokens(value, split(value, " "), kwargs)

\* PObject( value, *args, **kwargs ) for a number value; arg is what args
\* holds: nothing, a string or a Unit object
PObject_init_num(value, arg, kwargs) ==
    IF arg.kind = "none" THEN initWithUnitText(value, <<>>, kwargs)
    ELSE IF arg.kind = "str"
    THEN IF Len(split(arg.text, " ")) = 1
         THEN initFromTuple(fromString(decStr(value) \o <<" ">> \o arg.text,
                                       FALSE), kwargs)
         ELSE initWithUnitText(value, arg.text, kwargs)
    ELSE Built(value, arg.unit, withDefaults(kwargs))

\* PObject( valobj, **kwargs ): the new object holds the dict of valobj
\* itself, which the keys given are written into
PObject_init_obj(valobj, dict, kwargs) ==
    Built(valobj.value, valobj.unit, overridden(dict, kwargs))

\* a PObject instance: its private fields; kw is the place of its __kwargs
\* dict among the dicts
Instance(b, kw) ==
    [value |-> b.value, unit |-> b.unit, digits |-> b.dict.digits,
     precision |-> b.dict.precision, strictAscii |-> b.dict.strictAscii,
     kw |-> kw]

\* what an operator returns: a bare number, a new PObject, self, a truth
\* value, or an exception
Returned(exc, kind, value, unit, dict, flag) ==
    [exc |-> exc, kind |-> kind, value |-> value, unit |-> unit, dict |-> dict,
     flag |-> flag]

QNumber(value) ==
    Returned("none", "number", value, BlankUnit, withDefaults(NoKwargs), FALSE)

QObject(value, unit, dict) ==
    Returned("none", "PObject", value, unit, dict, FALSE)

QSelf(value, self) ==
    Returned("none", "self", value, self.unit,
             [digits |-> self.digits, precision |-> self.precision,
              strictAscii |-> self.strictAscii], FALSE)

QBool(flag) ==
    Returned("none", "bool", Dec(0, 0), BlankUnit, withDefaults(NoKwargs), flag)

QRaised(e) ==
    Returned(e, "none", Dec(0, 0), BlankUnit, withDefaults(NoKwargs), FALSE)

\* what a call does: what it returns, and the value of self and the
\* "digits" entry of self's dict when it ends
Effect(res, value, digits) == [res |-> res, value |-> value, digits |-> digits]

\* self.__class__( value, self.__unit, **kwargs ) and the test of
\* res.isUnitless that follows it
collapsed(value, unit, kwargs) ==
    IF isUnitless(unit) THEN QNumber(value) ELSE QObject(value, unit, kwargs)

\* PObject( value, <unit expression>, **kwargs ) and the test of
\* res.isUnitless, for the outcome u of the unit expression
collapsedOutcome(value, u, kwargs) ==
    IF u.exc # "none" THEN QRaised(u.exc)
    ELSE collapsed(value, AsUnit(u), kwargs)

\* lines 521-538, shared by __add__, __sub__ and __rsub__: resval is the sum
\* or difference
additive(self, dict, other, resval) ==
    IF ~other.isP
    THEN IF other.value = Dec(0, 0) \/ isUnitless(self.unit)
         THEN Effect(collapsed(resval, self.unit, dict), self.value, dict.digits)
         ELSE Effect(QRaised("ValueError"), self.value, dict.digits)
    ELSE IF Unit_ne(other.unit, self.unit)
    THEN Effect(QRaised("ValueError"), self.value, dict.digits)
    ELSE Effect(collapsed(resval, self.unit,
                          [dict EXCEPT !.digits = max(self.digits, other.digits)]),
                self.value, max(self.digits, other.digits))

\* PObject.__add__
PObject_add(self, dict, other) ==
    additive(self, dict, other, decAdd(self.value, other.value))

\* PObject.__radd__
PObject_radd(self, dict, other) == PObject_add(self, dict, other)

\* PObject.__sub__
PObject_sub(self, dict, other) ==
    additive(self, dict, other, decSub(self.value, other.value))

\* PObject.__rsub__
PObject_rsub(self, dict, other) ==
    additive(self, dict, other, decSub(other.value, self.value))

\* lines 556-570, shared by __iadd__ and __isub__: newval is the sum or
\* difference that self.__value becomes
additiveInPlace(self, dict, other, newval) ==
    IF (~other.isP /\ ~(other.value = Dec(0, 0) \/ isUnitless(self.unit)))
       \/ (other.isP /\ Unit_ne(other.unit, self.unit))
    THEN Effect(QRaised("ValueError"), self.value, dict.digits)
    ELSE IF isUnitless(self.unit)
    THEN Effect(QNumber(newval), newval, dict.digits)
    ELSE Effect(QSelf(newval, self), newval, dict.digits)

\* PObject.__iadd__
PObject_iadd(self, dict, other) ==
    additiveInPlace(self, dict, other, decAdd(self.value, other.value))

\* PObject.__isub__
PObject_isub(self, dict, other) ==
    additiveInPlace(self, dict, other, decSub(self.value, other.value))

\* PObject.__mul__
PObject_mul(self, dict, other) ==
    IF other.isP
    THEN Effect(collapsedOutcome(decMul(self.value, other.value),
                    Unit_mul(self.unit, other.unit),
                    [dict EXCEPT !.digits = max(self.digits, other.digits)]),
                self.value, max(self.digits, other.digits))
    ELSE Effect(collapsed(decMul(self.value, other.value), self.unit, dict),
                self.value, dict.digits)

\* lines 691-693 and 747-749 for res = self after self.__value has become
\* newval
selfCollapsed(self, dict, newval) ==
    IF isUnitless(self.unit) THEN Effect(QNumber(newval), newval, dict.digits)
    ELSE Effect(QSelf(newval, self), newval, dict.digits)

\* PObject.__imul__
PObject_imul(self, dict, other) ==
    IF ~other.isP THEN selfCollapsed(self, dict, decMul(self.value, other.value))
    ELSE Effect(collapsedOutcome(decMul(self.value, other.value),
                                 Unit_mul(self.unit, other.unit), dict),
                self.value, dict.digits)

\* PObject.__rmul__
PObject_rmul(self, dict, other) ==
    IF other.isP THEN Effect(QRaised("ValueError"), self.value, dict.digits)
    ELSE Effect(collapsed(decMul(other.value, self.value), self.unit, dict),
                self.value, dict.digits)

\* PObject.__truediv__
PObject_truediv(self, dict, other) ==
    IF other.isP
    THEN Effect(IF other.value = Dec(0, 0) THEN QRaised("ZeroDivisionError")
                ELSE collapsedOutcome(decDiv(self.value, other.value),
                         Unit_truediv(self.unit, other.unit),
                         [dict EXCEPT !.digits = max(self.digits, other.digits)]),
                self.value, max(self.digits, other.digits))
    ELSE Effect(IF other.value = Dec(0, 0) THEN QRaised("ZeroDivisionError")
                ELSE collapsed(decDiv(self.value, other.value), self.unit, dict),
                self.value, dict.digits)

\* PObject.__itruediv__
PObject_itruediv(self, dict, other) ==
    IF other.value = Dec(0, 0)
    THEN Effect(QRaised("ZeroDivisionError"), self.value, dict.digits)
    ELSE IF ~other.isP
    THEN selfCollapsed(self, dict, decDiv(self.value, other.value))
    ELSE Effect(collapsedOutcome(decDiv(self.value, other.value),
                                 Unit_truediv(self.unit, other.unit), dict),
                self.value, dict.digits)

\* PObject.__rtruediv__
PObject_rtruediv(self, dict, other) ==
    IF other.isP THEN Effect(QRaised("ValueError"), self.value, dict.digits)
    ELSE IF self.value = Dec(0, 0)
    THEN Effect(QRaised("ZeroDivisionError"), self.value, dict.digits)
    ELSE Effect(collapsedOutcome(decDiv(other.value, self.value),
                                 Unit_rtruediv_one(self.unit), dict),
                self.value, dict.digits)

\* twice the exponent, for an exponent that is a multiple of 0.5
twice(x) == decMul(x, Dec(2, 0)).m * ipow(10, decMul(x, Dec(2, 0)).e)

\* __pow__, lines 786-791, for the exponent p2 / 2
powered(self, dict, p2) ==
    IF self.value = Dec(0, 0) /\ p2 < 0 THEN QRaised("ZeroDivisionError")
    ELSE collapsedOutcome(decPow(self.value, p2), Unit_pow(self.unit, p2), dict)

\* PObject.__pow__
PObject_pow(self, dict, other) ==
    IF other.value = Dec(0, 0)
    THEN Effect(QNumber(Dec(1, 0)), self.value, dict.digits)
    ELSE IF other.isP /\ ~isUnitless(other.unit)
    THEN Effect(QRaised("ValueError"), self.value, dict.digits)
    ELSE Effect(powered(self, dict, twice(other.value)), self.value, dict.digits)

\* PObject.__abs__
PObject_abs(self, dict) ==
    Effect(collapsed(decAbs(self.value), self.unit, dict), self.value,
           dict.digits)

\* PObject.__neg__
PObject_neg(self, dict) ==
    Effect(collapsed(decNeg(self.value), self.unit, dict), self.value,
           dict.digits)

\* lines 825-830, shared by __lt__, __le__, __gt__ and __ge__: whether the
\* comparison raises
unlike(self, other) ==
    IF ~other.isP THEN ~(isUnitless(self.unit) \/ other.value = Dec(0, 0))
    ELSE Unit_ne(self.unit, other.unit)

\* PObject.__lt__
PObject_lt(self, other) ==
    IF unlike(self, other) THEN QRaised("ValueError")
    ELSE QBool(decLess(self.value, other.value))

\* PObject.__le__
PObject_le(self, other) ==
    IF unlike(self, other) THEN QRaised("ValueError")
    ELSE QBool(decLessEq(self.value, other.value))

\* PObject.__gt__
PObject_gt(self, other) ==
    IF unlike(self, other) THEN QRaised("ValueError")
    ELSE QBool(decLess(other.value, self.value))

\* PObject.__ge__
PObject_ge(self, other) ==
    IF unlike(self, other) THEN QRaised("ValueError")
    ELSE QBool(decLessEq(other.value, self.value))

\* PObject.__eq__ that compares the values only
PObject_eq_values(self, other) == QBool(self.value = other.value)

\* PObject.__eq__
PObject_eq(self, other) ==
    IF ~other.isP
    THEN IF ~(isUnitless(self.unit) \/ other.value = Dec(0, 0)) THEN QBool(FALSE)
         ELSE QBool(self.value = other.value)
    ELSE QBool(self.value = other.value /\ Unit_eq(self.unit, other.unit))

\* PObject.__ne__
PObject_ne(self, other) ==
    IF ~other.isP
    THEN IF ~(isUnitless(self.unit) \/ other.value = Dec(0, 0)) THEN QBool(TRUE)
         ELSE QBool(self.value # other.value)
    ELSE QBool(self.value # other.value \/ Unit_ne(self.unit, other.unit))

\* the digits d of an integer count of 10**e, split at the decimal point
digitsSplit(d, e) ==
    IF e >= 0 THEN [whole |-> d \o zeros(e), frac |-> <<>>]
    ELSE IF Len(d) > -e
    THEN [whole |-> SubSeq(d, 1, Len(d) + e),
          frac |-> SubSeq(d, Len(d) + e + 1, Len(d))]
    ELSE [whole |-> <<"0">>, frac |-> zeros(-e - Len(d)) \o d]

\* the digits d of an integer count of 10**e written with p decimals, for
\* p >= -e
fixedText(d, e, p) ==
    digitsSplit(d, e).whole \o
    (IF p > 0
     THEN <<".">> \o digitsSplit(d, e).frac
          \o zeros(p - Len(digitsSplit(d, e).frac))
     ELSE <<>>)

\* the sign a format writes in front of a number
signText(x) == IF x.m < 0 THEN <<"-">> ELSE <<>>

\* a decimal x >= 0 rounded to p >= 1 significant digits, ties to even
roundSig(x, p) ==
    IF x.m = 0 \/ ndigits(x.m) <= p THEN x
    ELSE LET unit == ipow(10, ndigits(x.m) - p)
             q    == x.m \div unit
             r    == x.m % unit
         IN  Dec(IF 2 * r > unit \/ (2 * r = unit /\ q % 2 = 1) THEN q + 1 ELSE q,
                 x.e + ndigits(x.m) - p)

\* the number of units 10**-p in a decimal x >= 0 that has more than p
\* decimals, rounded to an integer, ties to even
roundUnits(x, p) ==
    IF -x.e - p > ndigits(x.m) \/ -x.e - p >= 10 THEN 0
    ELSE LET unit == ipow(10, -x.e - p)
             q    == x.m \div unit
             r    == x.m % unit
         IN  IF 2 * r > unit \/ (2 * r = unit /\ q % 2 = 1) THEN q + 1 ELSE q

\* "{0:.<p>f}".format( x )
formatF(x, p) ==
    signText(x) \o
    (IF -x.e <= p THEN fixedText(intText(absInt(x.m)), x.e, p)
     ELSE fixedText(intText(roundUnits(decAbs(x), p)), -p, p))

\* the exponent part of the "g" format
exponentText(k) ==
    (IF k < 0 THEN <<"-">> ELSE <<"+">>) \o
    (IF absInt(k) < 10 THEN <<"0">> ELSE <<>>) \o intText(absInt(k))

\* the "g" format of a decimal r > 0 that has at most p significant digits
generalText(r, p) ==
    IF floorLog10(r) >= -4 /\ floorLog10(r) < p
    THEN digitsSplit(intText(r.m), r.e).whole \o
         (IF digitsSplit(intText(r.m), r.e).frac = <<>> THEN <<>>
          ELSE <<".">> \o digitsSplit(intText(r.m), r.e).frac)
    ELSE <<Head(intText(r.m))>> \o
         (IF Len(intText(r.m)) = 1 THEN <<>> ELSE <<".">> \o Tail(intText(r.m)))
         \o <<"e">> \o exponentText(floorLog10(r))

\* "{0:.<p>g}".format( x ); a precision of 0 counts as 1
formatG(x, p) ==
    IF x.m = 0 THEN <<"0">>
    ELSE signText(x) \o generalText(roundSig(decAbs(x), max(p, 1)), max(p, 1))

\* "{0}".format( n ) for the int n = round( x )
formatInt(n) == signText(n) \o intText(absInt(n.m)) \o zeros(n.e)

\* Prefix.toString, lines 502-519: the format chosen for a number newval # 0
toStringNumber(newval, postdigits) ==
    IF /\ decLess(Dec(1, 0), decAbs(newval))
       /\ decLessEq(decAbs(decSub(decRound(newval), newval)),
                    Dec(5, -postdigits - 1))
    THEN formatInt(decRound(newval))
    ELSE IF \/ decLess(Dec(1, 27), decAbs(newval))
            \/ decLess(decAbs(newval), Dec(1, -24))
    THEN formatG(newval, postdigits)
    ELSE formatF(newval, postdigits)

\* Prefix.toString, lines 499-521, for the tuple standardizeTuple returned
toStringTuple(t, precision) ==
    IF t.exc # "none" THEN NoText(t.exc)
    ELSE Text((IF t.number.m = 0 THEN formatG(t.number, 6)
               ELSE toStringNumber(t.number,
                        max(0, precision
                               - max(0, floorLog10(decAbs(t.number)) + 1))))
              \o <<" ">> \o t.unit)

\* Prefix.toString( (number, unit), precision=precision,
\* strictAscii=strictAscii )
toString(number, unit, precision, strictAscii) ==
    toStringTuple(standardizeTuple(number, unit, strictAscii, <<>>), precision)

\* what str( x ) returns: a text
QText(t) ==
    [exc |-> "none", kind |-> "text", value |-> Dec(0, 0), unit |-> BlankUnit,
     dict |-> withDefaults(NoKwargs), flag |-> FALSE, text |-> t]

\* PObject.__str__ for the text unit that str( self.__unit ) gave; the
\* magnitudes of the model are floats. The call of toString names a
\* parameter digits, which toString does not have
PObject_str_unit(self, unit) ==
    IF unit.exc # "none" THEN QRaised(unit.exc)
    ELSE IF Len(split(unit.text, " ")) = 1 /\ findStarStar(unit.text) = -1
    THEN QRaised("TypeError")
    ELSE QText(formatG(self.value, self.digits) \o <<" ">> \o unit.text)

\* PObject.__str__
PObject_str(self) == PObject_str_unit(self, Unit_str(self.unit, FALSE))

\* An element of a list given to standardizedList is a PObject or a plain
\* number, held like the other operand of an operator.

\* what an operator returned, as a list element
elemOf(res) ==
    [isP |-> res.kind = "PObject", value |-> res.value, unit |-> res.unit,
     digits |-> IF res.kind = "PObject" THEN res.dict.digits ELSE 0]

\* a < b for list elements; a plain number a leaves the comparison to b
elemLt(a, b) ==
    IF a.isP THEN PObject_lt(a, b)
    ELSE IF b.isP THEN PObject_gt(b, a)
    ELSE QBool(decLess(a.value, b.value))

\* a > b for list elements
elemGt(a, b) ==
    IF a.isP THEN PObject_gt(a, b)
    ELSE IF b.isP THEN PObject_lt(b, a)
    ELSE QBool(decLess(b.value, a.value))

\* a != 0 for a list element
elemNonZero(a) ==
    IF a.isP THEN PObject_ne(a, [isP |-> FALSE, value |-> Dec(0, 0),
                                  unit |-> BlankUnit, digits |-> 0]).flag
    ELSE a.value # Dec(0, 0)

\* abs( a ) for a list element
elemAbs(a) ==
    IF a.isP
    THEN elemOf(PObject_abs(a, [digits |-> a.digits, precision |-> 0,
                                strictAscii |-> FALSE]).res)
    ELSE [a EXCEPT !.value = decAbs(@)]

\* the outcome of min( polist ) and max( polist ): an element or an exception
Found(elem) == [exc |-> "none", elem |-> elem]

NotFound(e) == [exc |-> e, elem |-> [isP |-> FALSE, value |-> Dec(0, 0),
                                     unit |-> BlankUnit, digits |-> 0]]

RECURSIVE minFrom(_, _)
\* min( polist ), continued with the elements rest and the least so far
minFrom(rest, cur) ==
    IF rest = <<>> THEN Found(cur)
    ELSE IF elemLt(Head(rest), cur).exc # "none"
    THEN NotFound(elemLt(Head(rest), cur).exc)
    ELSE minFrom(Tail(rest), IF elemLt(Head(rest), cur).flag THEN Head(rest)
                             ELSE cur)

RECURSIVE maxFrom(_, _)
\* max( polist ), continued with the elements rest and the greatest so far
maxFrom(rest, cur) ==
    IF rest = <<>> THEN Found(cur)
    ELSE IF elemGt(Head(rest), cur).exc # "none"
    THEN NotFound(elemGt(Head(rest), cur).exc)
    ELSE maxFrom(Tail(rest), IF elemGt(Head(rest), cur).flag THEN Head(rest)
                             ELSE cur)

\* what standardizedList returns: the values with a unit text (ukind "str")
\* or with a Unit object (ukind "Unit"), or an exception
Listed(values, ukind, utext, unit) ==
    [exc |-> "none", values |-> values, ukind |-> ukind, utext |-> utext,
     unit |-> unit]

NotListed(e) ==
    [exc |-> e, values |-> <<>>, ukind |-> "none", utext |-> <<>>,
     unit |-> BlankUnit]

\* the state of the loop of lines 301-312: minobj and maxobj, or an exception
Extremes(exc, minobj, maxobj) == [exc |-> exc, minobj |-> minobj, maxobj |-> maxobj]

RECURSIVE extremesFrom(_, _, _)
RECURSIVE extremesWith(_, _, _, _)
\* lines 301-307: the tests made on the next element of the list
extremesFrom(rest, minobj, maxobj) ==
    IF rest = <<>> THEN Extremes("none", minobj, maxobj)
    ELSE IF elemNonZero(Head(rest)) /\ ~Head(rest).isP
    THEN Extremes("ValueError", minobj, maxobj)
    ELSE IF elemNonZero(Head(rest)) /\ ~minobj.isP
    THEN Extremes("AttributeError", minobj, maxobj)
    ELSE IF elemNonZero(Head(rest)) /\ Unit_ne(Head(rest).unit, minobj.unit)
    THEN Extremes("ValueError", minobj, maxobj)
    ELSE extremesWith(rest, elemAbs(Head(rest)), minobj, maxobj)

\* lines 308-312: the absolute value of the element is compared with minobj
\* and maxobj
extremesWith(rest, element, minobj, maxobj) ==
    IF elemLt(element, minobj).exc # "none"
    THEN Extremes(elemLt(element, minobj).exc, minobj, maxobj)
    ELSE IF elemLt(element, minobj).flag
    THEN extremesFrom(Tail(rest), element, maxobj)
    ELSE IF elemGt(element, maxobj).exc # "none"
    THEN Extremes(elemGt(element, maxobj).exc, minobj, maxobj)
    ELSE IF elemGt(element, maxobj).flag
    THEN extremesFrom(Tail(rest), minobj, element)
    ELSE extremesFrom(Tail(rest), minobj, maxobj)

\* SI.Prefix.standardizeTuple( (obj.value, obj.unit) ) for a PObject obj
standardizedOf(obj) ==
    standardizeTuple(obj.value, Unit_str(obj.unit, FALSE).text, FALSE, <<>>)

\* PObject.floatList( polist ) for a list whose non-zero elements are PObjects
floatList(polist) ==
    [i \in 1..Len(polist) |->
        IF elemNonZero(polist[i]) THEN polist[i].value ELSE Dec(0, 0)]

\* lines 322-330: every element that is not 0 is standardized by itself, and
\* the unit of the last of them is returned
eachStandardized(polist) ==
    Listed([i \in 1..Len(polist) |->
               IF elemNonZero(polist[i]) THEN standardizedOf(polist[i]).number
               ELSE Dec(0, 0)],
           "str",
           standardizedOf(polist[CHOOSE i \in 1..Len(polist) :
               /\ elemNonZero(polist[i])
               /\ \A j \in (i + 1)..Len(polist) : ~elemNonZero(polist[j])]).unit,
           BlankUnit)

\* lines 314-330, for minobj and maxobj as the loop left them
listedFrom(polist, ex) ==
    IF ex.exc # "none" THEN NotListed(ex.exc)
    ELSE IF ~ex.maxobj.isP THEN NotListed("AttributeError")
    ELSE IF ~elemNonZero(ex.minobj) THEN eachStandardized(polist)
    ELSE IF ~ex.minobj.isP THEN NotListed("AttributeError")
    ELSE IF standardizedOf(ex.minobj).unit # standardizedOf(ex.maxobj).unit
    THEN Listed(floatList(polist), "Unit", <<>>, ex.minobj.unit)
    ELSE eachStandardized(polist)

\* lines 299-330, for the outcome of min( polist )
listedAfterMin(polist, least) ==
    IF least.exc # "none" THEN NotListed(least.exc)
    ELSE IF /\ ~elemNonZero(least.elem)
            /\ maxFrom(Tail(polist), Head(polist)).exc # "none"
    THEN NotListed(maxFrom(Tail(polist), Head(polist)).exc)
    ELSE IF /\ ~elemNonZero(least.elem)
            /\ ~elemNonZero(maxFrom(Tail(polist), Head(polist)).elem)
    THEN Listed([i \in 1..Len(polist) |-> Dec(0, 0)], "str", <<>>, BlankUnit)
    ELSE listedFrom(polist, extremesFrom(polist, least.elem, least.elem))

\* PObject.standardizedList( polist )
PObject_standardizedList(polist) ==
    IF polist = <<>> THEN NotListed("ValueError")
    ELSE listedAfterMin(polist, minFrom(Tail(polist), Head(polist)))

\* copy.deepcopy( self ) with the dict of self left shared
PObject_copy_shared(self, free) == self

\* PObject.copy: copy.deepcopy( self ); the copy holds a dict of its own, at
\* the place free among the dicts
PObject_copy(self, free) == [self EXCEPT !.kw = free]

\* the setter of PObject.digits: only the field __digits is written
PObject_digits_set(self, value) == [self EXCEPT !.digits = value]

\* the test "if self.unit != <name>: raise ValueError" that ends the
\* constructor of a derived type
unitChecked(b, name) ==
    IF b.exc # "none" THEN b
    ELSE IF Unit_ne(b.unit, AsUnit(Unit_init_str(name))) THEN NotBuilt("ValueError")
    ELSE b

\* value, unit = SI.Prefix.fromString( value ) and then
\* super().__init__( value, unit, **kwargs ), for what fromString returned
derivedFromTuple(t, kwargs) ==
    IF t.exc # "none" THEN NotBuilt(t.exc)
    ELSE PObject_init_num(t.number,
                          [kind |-> "str", text |-> t.unit, unit |-> BlankUnit],
                          kwargs)

\* the branch of the derived constructors for a value string
derived_init_str(value, kwargs) == derivedFromTuple(fromString(value, FALSE), kwargs)

\* the branch of the derived constructors for a number: the unit is args[0],
\* or the unit of the type when there are no args
derived_init_num(value, arg, name, kwargs) ==
    IF arg.kind = "none"
    THEN PObject_init_num(value, [kind |-> "str", text |-> name, unit |-> BlankUnit],
                          kwargs)
    ELSE PObject_init_num(value, arg, kwargs)

\* Frequency( valstring, **kwargs )
Frequency_init_str(value, kwargs) ==
    unitChecked(derived_init_str(value, kwargs), <<"H", "z">>)

\* Frequency( value, *args, **kwargs )
Frequency_init_num(value, arg, kwargs) ==
    unitChecked(derived_init_num(value, arg, <<"H", "z">>, kwargs), <<"H", "z">>)

\* Frequency( valobj, **kwargs ): the constructor returns right after
\* super().__init__
Frequency_init_obj(valobj, dict, kwargs) == PObject_init_obj(valobj, dict, kwargs)

\* Mass( valstring, **kwargs )
Mass_init_str(value, kwargs) ==
    unitChecked(derived_init_str(value, kwargs), <<"k", "g">>)

\* Mass( value, *args, **kwargs )
Mass_init_num(value, arg, kwargs) ==
    unitChecked(derived_init_num(value, arg, <<"k", "g">>, kwargs), <<"k", "g">>)

\* Mass( valobj, **kwargs )
Mass_init_obj(valobj, dict, kwargs) ==
    unitChecked(PObject_init_obj(valobj, dict, kwargs), <<"k", "g">>)

----------------------------------------------------------------------------
(* The calls made on PObject: x is constructed, then possibly y, then one  *)
(* operator is applied to x, with y as the other operand when there is a y *)
(* and with a plain number when there is none                              *)

\* numeric literals that open a value string
QNumerals == {<<"0">>,
              <<"2">>,
              <<"0", ".", "5">>,
              <<"x", "1">>}

\* unit parts of a value string: one token, possibly prefixed
QWords == {<<"m">>,
           <<"s">>,
           <<"V">>,
           <<"W">>,
           <<"H", "z">>,
           <<"k", "g">>,
           <<"m", "V">>,
           <<"k", "O", "h", "m">>,
           <<"P", "a">>}

\* unit parts of a value string: several tokens
QPhrases == {<<"m", " ", "/", " ", "m">>,
             <<"V", " ", "A">>,
             <<"1", " ", "/", " ", "s">>,
             <<"m", " ", "/", " ", "s">>}

\* the value strings x and y are constructed from
QuantityTexts ==
    QNumerals
    \cup {n \o <<" ">> \o u : n \in QNumerals, u \in QWords \cup QPhrases}

\* the numbers x and y are constructed from
QValues == {Dec(0, 0), Dec(4, 0), Dec(-4, 0), Dec(25, -2)}

\* what follows the number in the constructor call
QArgs ==
    {[kind |-> "none", text |-> <<>>, unit |-> BlankUnit]}
    \cup {[kind |-> "str", text |-> t, unit |-> BlankUnit] :
             t \in {<<"m">>,
                    <<"m", "V">>,
                    <<"m", " ", "/", " ", "m">>,
                    <<"V", " ", "A">>}}
    \cup {[kind |-> "Unit", text |-> <<>>, unit |-> u] :
             u \in {BlankUnit, [num |-> 2, den |-> 1], [num |-> 12, den |-> 125]}}

\* the keyword arguments given to a constructor: none, or digits=3
KwargsGiven == {NoKwargs, [NoKwargs EXCEPT !.digits = <<3>>]}

\* the plain numbers used as the other operand
Scalars == {Dec(0, 0), Dec(2, 0), Dec(-1, 0), Dec(5, -1)}

\* the other operand of an operator: a PObject, or a number
AsOther(obj) ==
    [isP |-> TRUE, value |-> obj.value, unit |-> obj.unit, digits |-> obj.digits]

Scalar(v) == [isP |-> FALSE, value |-> v, unit |-> BlankUnit, digits |-> 0]

\* the record of a call: the operator, self as it was, the other operand and
\* what was returned
QCall(op, self, other, res) ==
    [op |-> op, self |-> self, other |-> other, res |-> res]

QNone == [op |-> "none"]

QIdle == UNCHANGED <<acc, last, pfx, eobj, iter>>

\* a constructor call has ended: the new object is bound to the next name,
\* or the exception is recorded
Constructed(b) ==
    IF b.exc = "none"
    THEN /\ objs' = Append(objs, Instance(b, Len(dicts) + 1))
         /\ dicts' = Append(dicts, b.dict)
         /\ qlast' = qlast
    ELSE /\ qlast' = QCall("init", Instance(b, 0), Scalar(Dec(0, 0)),
                           QRaised(b.exc))
         /\ UNCHANGED <<objs, dicts>>

\* x = PObject( valstring, **kwargs ), and then y likewise
PObjectFromString ==
    /\ qlast.op = "none"
    /\ Len(objs) < 2
    /\ \E text \in QuantityTexts, kwargs \in KwargsGiven :
         Constructed(PObject_init_str(text, kwargs))
    /\ QIdle

\* x = PObject( value, *args, **kwargs ), and then y likewise
PObjectFromNumber ==
    /\ qlast.op = "none"
    /\ Len(objs) < 2
    /\ \E value \in QValues, arg \in QArgs, kwargs \in KwargsGiven :
         Constructed(PObject_init_num(value, arg, kwargs))
    /\ QIdle

\* y = PObject( x, **kwargs )
PObjectFromPObject ==
    /\ qlast.op = "none"
    /\ Len(objs) = 1
    /\ \E kwargs \in KwargsGiven :
         /\ objs' = Append(objs,
                Instance(PObject_init_obj(objs[1], dicts[objs[1].kw], kwargs),
                         objs[1].kw))
         /\ dicts' = [dicts EXCEPT ![objs[1].kw] = overridden(@, kwargs)]
    /\ qlast' = qlast
    /\ QIdle

\* y = x.copy(), or x = y.copy() for the object constructed first
PObjectCopy ==
    /\ qlast.op = "none"
    /\ Len(objs) = 1
    /\ \E first \in BOOLEAN :
         objs' = IF first
                 THEN <<objs[1], PObject_copy(objs[1], Len(dicts) + 1)>>
                 ELSE <<PObject_copy(objs[1], Len(dicts) + 1), objs[1]>>
    /\ dicts' = Append(dicts, dicts[objs[1].kw])
    /\ qlast' = qlast
    /\ QIdle

\* the values assigned to x.digits
DigitsSet == {3, 9}

\* x.digits = value
PObjectSetDigits ==
    /\ qlast.op = "none"
    /\ Len(objs) >= 1
    /\ \E value \in DigitsSet :
         objs' = [objs EXCEPT ![1] = PObject_digits_set(@, value)]
    /\ UNCHANGED <<dicts, qlast>>
    /\ QIdle

\* the value strings the derived types are constructed from: those of
\* PObject without the unit word Pa, whose magnitude 2 * 10**15 has more
\* digits than str( value ) is modelled for
DerivedTexts ==
    QNumerals
    \cup {n \o <<" ">> \o u : n \in QNumerals,
                               u \in (QWords \ {<<"P", "a">>}) \cup QPhrases}

\* what follows the number in the constructor call of a derived type
DerivedArgs ==
    QArgs
    \cup {[kind |-> "str", text |-> t, unit |-> BlankUnit] :
             t \in {<<"H", "z">>, <<"k", "H", "z">>, <<"k", "g">>, <<"g">>,
                    <<"1", " ", "/", " ", "s">>}}
    \cup {[kind |-> "Unit", text |-> <<>>, unit |-> u] :
             u \in {[num |-> 1, den |-> 5], [num |-> 3, den |-> 1]}}

\* a constructor call of a derived type has ended: the object it has made, or
\* the exception, is recorded
DerivedMade(op, self, b) ==
    qlast' = QCall(op, self, Scalar(Dec(0, 0)),
                   IF b.exc = "none" THEN QObject(b.value, b.unit, b.dict)
                   ELSE QRaised(b.exc))

\* Frequency( valstring, **kwargs ), Frequency( value, *args, **kwargs ) and
\* Frequency( x, **kwargs )
FrequencyNew ==
    /\ qlast.op = "none"
    /\ \/ /\ Len(objs) = 0
          /\ \E text \in DerivedTexts, kwargs \in KwargsGiven :
               DerivedMade("Frequency", Instance(NotBuilt("none"), 0),
                           Frequency_init_str(text, kwargs))
          /\ UNCHANGED <<objs, dicts>>
       \/ /\ Len(objs) = 0
          /\ \E value \in QValues, arg \in DerivedArgs, kwargs \in KwargsGiven :
               DerivedMade("Frequency", Instance(NotBuilt("none"), 0),
                           Frequency_init_num(value, arg, kwargs))
          /\ UNCHANGED <<objs, dicts>>
       \/ /\ Len(objs) = 1
          /\ \E kwargs \in KwargsGiven :
               /\ DerivedMade("Frequency", objs[1],
                      Frequency_init_obj(objs[1], dicts[objs[1].kw], kwargs))
               /\ dicts' = [dicts EXCEPT ![objs[1].kw] = overridden(@, kwargs)]
          /\ objs' = objs
    /\ QIdle

\* Mass( valstring, **kwargs ), Mass( value, *args, **kwargs ) and
\* Mass( x, **kwargs )
MassNew ==
    /\ qlast.op = "none"
    /\ \/ /\ Len(objs) = 0
          /\ \E text \in DerivedTexts, kwargs \in KwargsGiven :
               DerivedMade("Mass", Instance(NotBuilt("none"), 0),
                           Mass_init_str(text, kwargs))
          /\ UNCHANGED <<objs, dicts>>
       \/ /\ Len(objs) = 0
          /\ \E value \in QValues, arg \in DerivedArgs, kwargs \in KwargsGiven :
               DerivedMade("Mass", Instance(NotBuilt("none"), 0),
                           Mass_init_num(value, arg, kwargs))
          /\ UNCHANGED <<objs, dicts>>
       \/ /\ Len(objs) = 1
          /\ \E kwargs \in KwargsGiven :
               /\ DerivedMade("Mass", objs[1],
                      Mass_init_obj(objs[1], dicts[objs[1].kw], kwargs))
               /\ dicts' = [dicts EXCEPT ![objs[1].kw] = overridden(@, kwargs)]
          /\ objs' = objs
    /\ QIdle

\* the operands an operator on x is called with
Others == IF Len(objs) = 2 THEN {AsOther(objs[2])}
          ELSE {Scalar(v) : v \in Scalars}

\* the call op on x has ended with the effect eff
Done(op, other, eff) ==
    /\ qlast' = QCall(op, objs[1], other, eff.res)
    /\ objs' = [objs EXCEPT ![1].value = eff.value]
    /\ dicts' = [dicts EXCEPT ![objs[1].kw].digits = eff.digits]
    /\ QIdle

\* a call that leaves x as it was
Pure(res) == Effect(res, objs[1].value, dicts[objs[1].kw].digits)

Ready == qlast.op = "none" /\ Len(objs) >= 1

\* x + other
PObjectAdd ==
    /\ Ready
    /\ \E other \in Others :
         Done("add", other, PObject_add(objs[1], dicts[objs[1].kw], other))

\* number + x
PObjectRadd ==
    /\ Ready
    /\ Len(objs) = 1
    /\ \E v \in Scalars :
         Done("radd", Scalar(v),
              PObject_radd(objs[1], dicts[objs[1].kw], Scalar(v)))

\* x += other
PObjectIadd ==
    /\ Ready
    /\ \E other \in Others :
         Done("iadd", other, PObject_iadd(objs[1], dicts[objs[1].kw], other))

\* x - other
PObjectSub ==
    /\ Ready
    /\ \E other \in Others :
         Done("sub", other, PObject_sub(objs[1], dicts[objs[1].kw], other))

\* number - x
PObjectRsub ==
    /\ Ready
    /\ Len(objs) = 1
    /\ \E v \in Scalars :
         Done("rsub", Scalar(v),
              PObject_rsub(objs[1], dicts[objs[1].kw], Scalar(v)))

\* x -= other
PObjectIsub ==
    /\ Ready
    /\ \E other \in Others :
         Done("isub", other, PObject_isub(objs[1], dicts[objs[1].kw], other))

\* x * other
PObjectMul ==
    /\ Ready
    /\ \E other \in Others :
         Done("mul", other, PObject_mul(objs[1], dicts[objs[1].kw], other))

\* x *= other
PObjectImul ==
    /\ Ready
    /\ \E other \in Others :
         Done("imul", other, PObject_imul(objs[1], dicts[objs[1].kw], other))

\* number * x
PObjectRmul ==
    /\ Ready
    /\ Len(objs) = 1
    /\ \E v \in Scalars :
         Done("rmul", Scalar(v),
              PObject_rmul(objs[1], dicts[objs[1].kw], Scalar(v)))

\* x / other
PObjectTruediv ==
    /\ Ready
    /\ \E other \in Others :
         Done("truediv", other,
              PObject_truediv(objs[1], dicts[objs[1].kw], other))

\* x /= other
PObjectItruediv ==
    /\ Ready
    /\ \E other \in Others :
         Done("itruediv", other,
              PObject_itruediv(objs[1], dicts[objs[1].kw], other))

\* number / x
PObjectRtruediv ==
    /\ Ready
    /\ Len(objs) = 1
    /\ \E v \in Scalars :
         Done("rtruediv", Scalar(v),
              PObject_rtruediv(objs[1], dicts[objs[1].kw], Scalar(v)))

\* the exponent is a multiple of 0.5 within the bound, and the power of the
\* value is a real number and a finite decimal
PowInRange(value, exponent) ==
    /\ decMul(exponent, Dec(2, 0)).e >= 0
    /\ absInt(twice(exponent)) <= MaxPow2
    /\ PowIsDecimal(value, twice(exponent))

\* x ** other
PObjectPow ==
    /\ Ready
    /\ \E other \in Others :
         /\ PowInRange(objs[1].value, other.value)
         /\ Done("pow", other, PObject_pow(objs[1], dicts[objs[1].kw], other))

\* abs( x )
PObjectAbs ==
    /\ Ready
    /\ Done("abs", Scalar(Dec(0, 0)), PObject_abs(objs[1], dicts[objs[1].kw]))

\* -x
PObjectNeg ==
    /\ Ready
    /\ Done("neg", Scalar(Dec(0, 0)), PObject_neg(objs[1], dicts[objs[1].kw]))

\* x < other
PObjectLt ==
    /\ Ready
    /\ \E other \in Others : Done("lt", other, Pure(PObject_lt(objs[1], other)))

\* x <= other
PObjectLe ==
    /\ Ready
    /\ \E other \in Others : Done("le", other, Pure(PObject_le(objs[1], other)))

\* x > other
PObjectGt ==
    /\ Ready
    /\ \E other \in Others : Done("gt", other, Pure(PObject_gt(objs[1], other)))

\* x >= other
PObjectGe ==
    /\ Ready
    /\ \E other \in Others : Done("ge", other, Pure(PObject_ge(objs[1], other)))

\* x == other
PObjectEq ==
    /\ Ready
    /\ \E other \in Others : Done("eq", other, Pure(PObject_eq(objs[1], other)))

\* x != other
PObjectNe ==
    /\ Ready
    /\ \E other \in Others : Done("ne", other, Pure(PObject_ne(objs[1], other)))

\* the in-place operators
InPlaceOps == {"iadd", "isub", "imul", "itruediv"}

\* str( x )
PObjectStr ==
    /\ Ready
    /\ Done("str", Scalar(Dec(0, 0)), Pure(PObject_str(objs[1])))

\* the lists given to standardizedList: x alone or with the number 0, or x
\* and y in either order
ListsGiven ==
    IF Len(objs) = 1
    THEN {<<AsOther(objs[1])>>,
          <<AsOther(objs[1]), Scalar(Dec(0, 0))>>,
          <<Scalar(Dec(0, 0)), AsOther(objs[1])>>}
    ELSE {<<AsOther(objs[1]), AsOther(objs[2])>>,
          <<AsOther(objs[2]), AsOther(objs[1])>>}

\* PObject.standardizedList( polist )
PObjectStandardizedList ==
    /\ Ready
    /\ \E polist \in ListsGiven :
         qlast' = [op |-> "standardizedList", self |-> objs[1],
                   other |-> Scalar(Dec(0, 0)), polist |-> polist,
                   res |-> PObject_standardizedList(polist)]
    /\ UNCHANGED <<objs, dicts>>
    /\ QIdle

\* after an in-place operator that has returned self, the caller goes on with
\* x and y as they are; the magnitudes stay among those of the constructions
PObjectGoOn ==
    /\ qlast.op \in InPlaceOps
    /\ qlast.res.kind = "self"
    /\ objs[1].value \in QValues
    /\ qlast' = QNone
    /\ UNCHANGED <<objs, dicts>>
    /\ QIdle

\* the names x and y are dropped and the caller starts over
PObjectReset ==
    /\ qlast.op # "none"
    /\ qlast' = QNone
    /\ objs' = <<>>
    /\ dicts' = <<>>
    /\ QIdle

NextQuantity ==
    \/ PObjectFromString
    \/ PObjectFromNumber
    \/ PObjectFromPObject
    \/ PObjectCopy
    \/ PObjectSetDigits
    \/ FrequencyNew
    \/ MassNew
    \/ PObjectAdd
    \/ PObjectRadd
    \/ PObjectIadd
    \/ PObjectSub
    \/ PObjectRsub
    \/ PObjectIsub
    \/ PObjectMul
    \/ PObjectImul
    \/ PObjectRmul
    \/ PObjectTruediv
    \/ PObjectItruediv
    \/ PObjectRtruediv
    \/ PObjectPow
    \/ PObjectAbs
    \/ PObjectNeg
    \/ PObjectLt
    \/ PObjectLe
    \/ PObjectGt
    \/ PObjectGe
    \/ PObjectEq
    \/ PObjectNe
    \/ PObjectStr
    \/ PObjectStandardizedList
    \/ PObjectGoOn
    \/ PObjectReset

SpecQuantity == InitUnit /\ [][NextQuantity]_vars

----------------------------------------------------------------------------
(* Claims about PObject                                                    *)

\* a Dimension with no base unit left: numerator and denominator cancel
Dimensionless(u) == u.num = u.den

\* two Dimensions that are the same quotient of base units
SameDimension(u, v) == u.num * v.den = v.num * u.den

\* two Dimensions whose product has no base unit left
Reciprocal(u, v) == u.num * v.num = u.den * v.den

ArithmeticOps == {"add", "radd", "iadd", "sub", "rsub", "isub", "mul", "rmul",
                  "imul", "truediv", "rtruediv", "itruediv", "pow", "abs", "neg"}

\* C6: the collapse rule: no arithmetic operator returns a PObject (a new one
\* or self) whose Dimension is dimensionless, and the product of two PObjects
\* with reciprocal Dimensions is a bare number
C6_CollapseRule ==
    (qlast.op \in ArithmeticOps /\ qlast.res.exc = "none") =>
        /\ qlast.res.kind \in {"PObject", "self"} =>
               ~Dimensionless(qlast.res.unit)
        /\ (qlast.op = "mul" /\ qlast.other.isP
              /\ Reciprocal(qlast.self.unit, qlast.other.unit)) =>
               qlast.res.kind = "number"

AdditiveOps == {"add", "radd", "iadd", "sub", "rsub", "isub"}

\* the three cases in which add and subtract are legal
Addable(self, other) ==
    \/ other.isP /\ SameDimension(self.unit, other.unit)
    \/ ~other.isP /\ other.value = Dec(0, 0)
    \/ Dimensionless(self.unit)

\* C7: add and subtract raise ValueError unless both operands are PObjects of
\* the same Dimension, or the other operand is the number 0, or self is
\* dimensionless, whatever the magnitudes; and the sum of two PObjects of the
\* same unit is a PObject of that unit (a bare number when that unit is
\* dimensionless)
C7_AddSubtract ==
    qlast.op \in AdditiveOps =>
        /\ ~Addable(qlast.self, qlast.other) => qlast.res.exc = "ValueError"
        /\ (qlast.op \in {"add", "iadd"} /\ qlast.other.isP
              /\ SameDimension(qlast.self.unit, qlast.other.unit)) =>
               /\ qlast.res.exc = "none"
               /\ qlast.res.value = decAdd(qlast.self.value, qlast.other.value)
               /\ IF Dimensionless(qlast.self.unit)
                  THEN qlast.res.kind = "number"
                  ELSE /\ qlast.res.kind \in {"PObject", "self"}
                       /\ qlast.res.unit = qlast.self.unit

Orderings == {"lt", "le", "gt", "ge"}

\* what the comparison op of the magnitudes a and b is
Compared(op, a, b) ==
    IF op = "lt" THEN decLess(a, b)
    ELSE IF op = "le" THEN decLess(a, b) \/ a = b
    ELSE IF op = "gt" THEN decLess(b, a)
    ELSE decLess(b, a) \/ a = b

\* C8: an ordering comparison raises ValueError unless the Dimensions are
\* the same, or the other side is the number 0, or self is dimensionless, and
\* where it does not raise it compares the magnitudes; == never raises; it is
\* true only for equal magnitudes and equal Dimensions, or for a zero
\* magnitude against the number 0, which it always is; two PObjects of
\* different Dimensions are not equal, not even with magnitudes 0
C8_Comparisons ==
    /\ qlast.op \in Orderings =>
         /\ ~Addable(qlast.self, qlast.other) => qlast.res.exc = "ValueError"
         /\ qlast.res.exc \in {"none", "ValueError"}
         /\ qlast.res.exc = "none" =>
                /\ qlast.res.kind = "bool"
                /\ qlast.res.flag = Compared(qlast.op, qlast.self.value,
                                             qlast.other.value)
    /\ qlast.op = "eq" =>
         /\ qlast.res.exc = "none" /\ qlast.res.kind = "bool"
         /\ qlast.res.flag =>
                \/ /\ qlast.self.value = qlast.other.value
                   /\ IF qlast.other.isP
                      THEN SameDimension(qlast.self.unit, qlast.other.unit)
                      ELSE Dimensionless(qlast.self.unit)
                \/ /\ ~qlast.other.isP
                   /\ qlast.other.value = Dec(0, 0)
                   /\ qlast.self.value = Dec(0, 0)
         /\ (~qlast.other.isP /\ qlast.other.value = Dec(0, 0)
               /\ qlast.self.value = Dec(0, 0)) => qlast.res.flag
         /\ (qlast.other.isP
               /\ ~SameDimension(qlast.self.unit, qlast.other.unit)) =>
                ~qlast.res.flag

\* PObject( "0 V" ) == PObject( "0 s" ) has returned False
C8_Witness ==
    /\ qlast.op = "eq"
    /\ qlast.other.isP
    /\ qlast.self.value = Dec(0, 0)
    /\ qlast.other.value = Dec(0, 0)
    /\ qlast.self.unit = [num |-> 12, den |-> 875]
    /\ qlast.other.unit = [num |-> 5, den |-> 1]
    /\ qlast.res = QBool(FALSE)

\* the magnitude an in-place operator leaves in self
InPlaceValue(op, a, b) ==
    IF op = "iadd" THEN decAdd(a, b)
    ELSE IF op = "isub" THEN decSub(a, b)
    ELSE IF op = "imul" THEN decMul(a, b)
    ELSE decDiv(a, b)

\* a step in which an in-place operator on x has ended without an exception
\* and with the unit kept: the other operand is a number, or the operator is
\* += or -= (which take a PObject of the same unit only)
KeepsUnit ==
    /\ qlast.op = "none"
    /\ qlast'.op \in InPlaceOps
    /\ qlast'.res.exc = "none"
    /\ (qlast'.other.isP => qlast'.op \in {"iadd", "isub"})

\* after y = x, y names the instance objs[1] that x names: what the operator
\* has left there is what y shows, the new magnitude with everything else as
\* it was, and the operator has returned that instance (or, for a unitless
\* one, its magnitude)
AliasSees ==
    KeepsUnit =>
        /\ objs'[1] = [objs[1] EXCEPT !.value =
                          InPlaceValue(qlast'.op, objs[1].value, qlast'.other.value)]
        /\ qlast'.res.kind \in {"self", "number"}
        /\ qlast'.res.value = objs'[1].value
        /\ dicts' = dicts

\* x and y are two instances with a dict each, as after y = x.copy() or
\* x = y.copy(): whatever is done to x, y and its dict stay as they are
CopyUntouched ==
    (Len(objs) = 2 /\ Len(dicts) = 2 /\ Len(objs') = 2) =>
        /\ objs'[2] = objs[2]
        /\ dicts'[objs[2].kw] = dicts[objs[2].kw]

\* C17: aliasing and copy: an in-place operation on x that keeps the unit
\* changes the one instance that x and every alias y = x name; after
\* y = x.copy() (and x = y.copy()) no operation on x, in place or not, and no
\* assignment to x.digits changes the magnitude, the Dimension, the digits or
\* the dict of y
C17_AliasAndCopy == [][AliasSees /\ CopyUntouched]_vars

\* y = x.copy() for x = 4 m, then x += y: x is 8 m and y is 4 m, with the dict
\* it was copied with
C17_Witness ==
    /\ Len(objs) = 2
    /\ Len(dicts) = 2
    /\ qlast.op = "iadd"
    /\ qlast.res.kind = "self"
    /\ qlast.self.value = Dec(4, 0)
    /\ qlast.self.unit = [num |-> 2, den |-> 1]
    /\ objs[1].value = Dec(8, 0)
    /\ objs[2] = [qlast.self EXCEPT !.kw = 2]
    /\ dicts[2] = dicts[1]

\* what the operator that is not in place returns for the operands of the
\* in-place one
NotInPlace(op, self, dict, other) ==
    IF op = "imul" THEN PObject_mul(self, dict, other).res
    ELSE PObject_truediv(self, dict, other).res

\* C18: x *= q and x /= q with a PObject q return what x * q and x / q return:
\* the same magnitude, Dimension, digits and dict entries, a bare number under
\* the same rule, the same exception; and the instance x named is left as it
\* was
C18_InPlaceLikeOperator ==
    (qlast.op \in {"imul", "itruediv"} /\ qlast.other.isP) =>
        /\ qlast.res = NotInPlace(qlast.op, qlast.self, dicts[objs[1].kw],
                                  qlast.other)
        /\ objs[1] = qlast.self

\* a step in which a call on PObject has ended with an exception
CallRaises ==
    /\ qlast.op = "none"
    /\ qlast'.op # "none"
    /\ qlast'.res.exc # "none"

\* C19: failure atomicity: whenever a construction, an operator, an in-place
\* operator or a comparison raises, every PObject that exists is left as it
\* was before the call: magnitude, Dimension, digits and the dict of keyword
\* arguments
C19_FailureAtomic == [][CallRaises => (objs' = objs /\ dicts' = dicts)]_vars

\* the Dimension a derived type is fixed to
FixedDimension(type) ==
    IF type = "Frequency" THEN [num |-> 1, den |-> 5] ELSE [num |-> 3, den |-> 1]

\* C20: a derived type with a fixed Dimension rejects every construction whose
\* Dimension differs from it, from a string, from a number with a unit and
\* from another PObject: whenever such a constructor has made an object, the
\* object holds the Dimension of its type
C20_FixedDimension ==
    (qlast.op \in {"Frequency", "Mass"} /\ qlast.res.exc = "none") =>
        qlast.res.unit = FixedDimension(qlast.op)

\* the unit text of x, and whether it is a single symbol
UnitText(self) == Unit_str(self.unit, FALSE).text

SingleSymbol(t) == Len(split(t, " ")) = 1 /\ findStarStar(t) = -1

\* the operators that return a new value and are not in place
NewValueOps == {"add", "sub", "mul", "truediv", "pow", "abs", "neg"}

\* a step in which x op other has ended, or y = PObject( x, **kwargs ) has
\* made y from x
MakesNewValue ==
    \/ qlast.op = "none" /\ qlast'.op \in NewValueOps
    \/ Len(objs) = 1 /\ Len(objs') = 2 /\ objs'[2].kw = objs[1].kw

\* C29: an operator that is not in place (a + b, a - b, a * b, a / b, a ** p,
\* abs, negate) and the construction of a PObject from another PObject with
\* overriding keyword arguments leave every PObject that existed before as it
\* was: magnitude, Dimension, digits, and the dict of keyword arguments that
\* its later results are made with
C29_OperandsUntouched ==
    [][MakesNewValue =>
          /\ \A i \in 1..Len(objs) : objs'[i] = objs[i]
          /\ \A i \in 1..Len(dicts) : dicts'[i] = dicts[i]]_vars

\* C24: str( q ) always succeeds. For a Dimension rendered as a single symbol
\* it returns what Prefix.toString gives for (magnitude, unit) with q's
\* significant digits and ASCII flag; for other Dimensions it returns the
\* magnitude and the unit text
C24_DisplayString ==
    qlast.op = "str" =>
        /\ qlast.res.exc = "none"
        /\ qlast.res.kind = "text"
        /\ qlast.res.text =
             IF SingleSymbol(UnitText(qlast.self))
             THEN toString(qlast.self.value, UnitText(qlast.self),
                           qlast.self.digits, qlast.self.strictAscii).text
             ELSE formatG(qlast.self.value, qlast.self.digits)
                  \o <<" ">> \o UnitText(qlast.self)

\* every element of the list is a PObject
AllQuantities(polist) == \A i \in 1..Len(polist) : polist[i].isP

\* the elements of the list have one unit
OneUnit(polist) ==
    \A i \in 1..Len(polist) : Unit_eq(polist[i].unit, polist[1].unit)

\* the value, scaled by the prefix of the unit text, is the magnitude
ScaledIs(value, utext, magnitude) ==
    normalizeTuple(value, utext, FALSE).number = magnitude

\* C25: for a list of PObjects of one unit, of any signs, zeros included,
\* standardizedList returns as many values as there are elements, all
\* expressed in the one unit returned: with a unit text, each value scaled by
\* the prefix of that text is the magnitude of its element; with the base
\* unit, each value is the magnitude. For a list whose units differ it raises
\* ValueError
C25_StandardizedList ==
    (qlast.op = "standardizedList" /\ AllQuantities(qlast.polist)) =>
        IF OneUnit(qlast.polist)
        THEN /\ qlast.res.exc = "none"
             /\ Len(qlast.res.values) = Len(qlast.polist)
             /\ \A i \in 1..Len(qlast.polist) :
                  IF qlast.res.ukind = "Unit"
                  THEN /\ qlast.res.values[i] = qlast.polist[i].value
                       /\ Unit_eq(qlast.res.unit, qlast.polist[i].unit)
                  ELSE ScaledIs(qlast.res.values[i], qlast.res.utext,
                                qlast.polist[i].value)
        ELSE qlast.res.exc = "ValueError"

----------------------------------------------------------------------------
(* ESeries: the tables of preferred values and the searches in them        *)

\* the series of the model
SeriesNames == {"E3", "E6", "E12"}

\* ESeries.__eList: the values of one decade of a series, in tenths
eList(series) ==
    CASE series = "E3"  -> <<10, 22, 47>>
      [] series = "E6"  -> <<10, 15, 22, 33, 47, 68>>
      [] series = "E12" -> <<10, 12, 15, 18, 22, 27, 33, 39, 47, 56, 68, 82>>

\* ESeries.len( series )
ESeries_len(series) == Len(eList(series))

\* elist[index] for the 0-based index of the source
elistAt(series, index) == Dec(eList(series)[index + 1], -1)

\* 10**k as a float: 0.0 below the smallest power of ten a float holds
pow10(k) == IF k < -FloatDecades THEN Dec(0, 0) ELSE Dec(1, k)

\* factor / 10 for a factor that is a power of ten or 0.0
tenth(factor) == IF factor.m = 0 THEN factor ELSE pow10(factor.e - 1)

\* an error or a distance: math.inf, or a number
Inf == [inf |-> TRUE, d |-> Dec(0, 0)]

Fin(d) == [inf |-> FALSE, d |-> d]

\* a < b for errors and distances
errLess(a, b) == ~a.inf /\ (b.inf \/ decLess(a.d, b.d))

\* abs( value - val * factor )
errorOf(value, val, factor) == Fin(decAbs(decSub(value, decMul(val, factor))))

\* one pass of the for loop of ESeries.closest: [error, index] after elist[i]
closestStep(series, value, factor, i, found) ==
    IF errLess(errorOf(value, elistAt(series, i), factor), found.error)
    THEN [error |-> errorOf(value, elistAt(series, i), factor), index |-> i]
    ELSE found

RECURSIVE closestLoop(_, _, _, _, _)
\* the for loop of ESeries.closest and of ErangeIter.__init__ from elist[i]
\* on: the first index of least error, and that error
closestLoop(series, value, factor, i, found) ==
    IF i > ESeries_len(series) - 1 THEN found
    ELSE closestLoop(series, value, factor, i + 1,
                     closestStep(series, value, factor, i, found))

\* the index and the factor a search ends with
At(index, factor) == [index |-> index, factor |-> factor]

\* "handle boundary cases" of ESeries.closest and of ErangeIter.__init__
boundaryCases(series, value, factor, found) ==
    IF found.index = 0
    THEN IF errLess(Fin(decAbs(decSub(value,
                 decScale(decMul(elistAt(series, ESeries_len(series) - 1),
                                 factor), -1)))), found.error)
         THEN At(ESeries_len(series) - 1, tenth(factor))
         ELSE At(0, factor)
    ELSE IF found.index = ESeries_len(series) - 1
    THEN IF errLess(Fin(decAbs(decSub(value,
                 decScale(decMul(elistAt(series, 0), factor), 1)))),
                 found.error)
         THEN At(0, decScale(factor, 1))
         ELSE At(found.index, factor)
    ELSE At(found.index, factor)

\* the search of ESeries.closest and of ErangeIter.__init__ for a value > 0
closestAt(series, value, factor) ==
    boundaryCases(series, value, factor,
                  closestLoop(series, value, factor, 0,
                              [error |-> Inf, index |-> 0]))

\* what a search returns: a number, or an exception
Num(value) == [exc |-> "none", value |-> value]

NoNum(e) == [exc |-> e, value |-> Dec(0, 0)]

\* elist[index] * factor
valueAt(series, at) == decMul(elistAt(series, at.index), at.factor)

\* ESeries.closest( value, series ); math.log10 raises ValueError for a
\* value <= 0
ESeries_closest(value, series) ==
    IF series = "None" THEN Num(value)
    ELSE IF value.m <= 0 THEN NoNum("ValueError")
    ELSE Num(valueAt(series,
                     closestAt(series, value, pow10(floorLog10(value)))))

RECURSIVE nextLoop(_, _, _, _)
\* the for loop of ESeries.next from elist[index] on: the index it ends at
nextLoop(series, value, factor, index) ==
    IF decLess(value, decMul(elistAt(series, index), factor)) THEN index
    ELSE IF index = ESeries_len(series) - 1 THEN index
    ELSE nextLoop(series, value, factor, index + 1)

\* "handle boundary case" of ESeries.next
nextBoundary(series, value, factor, index) ==
    IF index >= ESeries_len(series) - 1
       /\ ~decLess(value, decMul(elistAt(series, index), factor))
    THEN At(0, decScale(factor, 1))
    ELSE At(index, factor)

\* ESeries.next( value, series )
ESeries_next(value, series) ==
    IF value.m <= 0 THEN NoNum("ValueError")
    ELSE Num(valueAt(series,
             nextBoundary(series, value, pow10(floorLog10(value)),
                          nextLoop(series, value, pow10(floorLog10(value)), 0))))

RECURSIVE previousLoop(_, _, _, _)
\* the for loop of ESeries.previous over elist[::-1] from elist[index] down:
\* the index it ends at
previousLoop(series, value, factor, index) ==
    IF decLess(decMul(elistAt(series, index), factor), value) THEN index
    ELSE IF index = 0 THEN index
    ELSE previousLoop(series, value, factor, index - 1)

\* "handle boundary case" of ESeries.previous
previousBoundary(series, value, factor, index) ==
    IF index <= 0 /\ ~decLess(decMul(elistAt(series, index), factor), value)
    THEN At(ESeries_len(series) - 1, tenth(factor))
    ELSE At(index, factor)

\* ESeries.previous( value, series )
ESeries_previous(value, series) ==
    IF value.m <= 0 THEN NoNum("ValueError")
    ELSE Num(valueAt(series,
             previousBoundary(series, value, pow10(floorLog10(value)),
                 previousLoop(series, value, pow10(floorLog10(value)),
                              ESeries_len(series) - 1))))

RECURSIVE decadeLoop(_, _, _, _, _)
\* the while loop of ESeries.decade: vlist when it has steps values
decadeLoop(series, steps, lval, hval, vlist) ==
    IF Len(vlist) >= steps THEN vlist
    ELSE IF Len(vlist) + 1 = steps
    THEN Append(vlist, ESeries_previous(lval, series).value)
    ELSE decadeLoop(series, steps, ESeries_previous(lval, series).value,
                    ESeries_next(hval, series).value,
                    vlist \o <<ESeries_previous(lval, series).value,
                               ESeries_next(hval, series).value>>)

\* ESeries.decade( value, series ) for a value > 0, with decades = 1 and
\* sorted = False
ESeries_decade(value, series) ==
    decadeLoop(series, ESeries_len(series), value, value,
               IF value = ESeries_closest(value, series).value
               THEN <<value>> ELSE <<>>)

----------------------------------------------------------------------------
(* EEObjects: PObjects whose values are confined to a series               *)

\* **dict: the entries of a dict as the keyword arguments of a call
kwargsOf(dict) ==
    [digits |-> <<dict.digits>>, precision |-> <<dict.precision>>,
     strictAscii |-> <<dict.strictAscii>>]

\* EEObject.__init__, lines 83-86: digits=3 unless digits are given
withDigits3(kwargs) ==
    IF kwargs.digits = <<>> THEN [kwargs EXCEPT !.digits = <<3>>] ELSE kwargs

\* what follows the value in a constructor call: a unit string, a Unit
\* object, a class, or nothing
UnitString(text) == [kind |-> "str", text |-> text, unit |-> BlankUnit]

UnitObject(unit) == [kind |-> "Unit", text |-> <<>>, unit |-> unit]

ClassObject == [kind |-> "class", text |-> <<>>, unit |-> BlankUnit]

NoArg == [kind |-> "none", text |-> <<>>, unit |-> BlankUnit]

\* PObject.__init__ for a number and args[0]; lines 418-421 raise ValueError
\* for an args[0] that is neither a string nor a Unit
PObject_init_arg(value, arg, kwargs) ==
    IF arg.kind = "class" THEN NotBuilt("ValueError")
    ELSE PObject_init_num(value, arg, kwargs)

\* lines 101-103 of EEObject.__init__ for what ESeries.closest returned
superInit(closest, arg, kwargs) ==
    IF closest.exc # "none" THEN NotBuilt(closest.exc)
    ELSE PObject_init_arg(closest.value, arg, kwargs)

\* EEObject( value, *args, series=series, **kwargs ) for a number value
EEObject_init_num(value, arg, series, kwargs) ==
    IF arg.kind = "none" THEN NotBuilt("ValueError")
    ELSE superInit(ESeries_closest(value, series), arg, withDigits3(kwargs))

\* lines 91-92 of EEObject.__init__ for what SI.Prefix.fromString returned
initFromString(t, series, kwargs) ==
    IF t.exc # "none" THEN NotBuilt(t.exc)
    ELSE superInit(ESeries_closest(t.number, series), UnitString(t.unit),
                   withDigits3(kwargs))

\* EEObject( valstring, series=series, **kwargs )
EEObject_init_str(value, series, kwargs) ==
    initFromString(fromString(value, FALSE), series, kwargs)

\* Resistor( value, *args, series=series, **kwargs ) for a number value: the
\* unit is args[0], or the Ohm sign when there are no args
Resistor_init_num(value, arg, series, kwargs) ==
    unitChecked(EEObject_init_num(value,
                    IF arg.kind = "none" THEN UnitString(<<"Omega">>) ELSE arg,
                    series, kwargs),
                <<"Omega">>)

\* self.__class__( value, *args, **kwargs ) for a number value
Eclass_init_num(cls, value, arg, series, kwargs) ==
    IF cls = "Resistor" THEN Resistor_init_num(value, arg, series, kwargs)
    ELSE EEObject_init_num(value, arg, series, kwargs)

\* self.__class__( value, *self._args, **self._kwargs ) of next, previous and
\* decade, for what the search returned: self._args holds what followed the
\* unit, which is nothing
derivedFrom(cls, found, series, dict) ==
    IF found.exc # "none" THEN NotBuilt(found.exc)
    ELSE Eclass_init_num(cls, found.value, NoArg, series, kwargsOf(dict))

\* EEObject.next
EEObject_next(cls, self, series, dict) ==
    derivedFrom(cls, ESeries_next(self.value, series), series, dict)

\* EEObject.previous
EEObject_previous(cls, self, series, dict) ==
    derivedFrom(cls, ESeries_previous(self.value, series), series, dict)

\* EEObject.decade: the objects made from the values of ESeries.decade, or
\* the exception of the first that cannot be made
EEObject_decade(cls, self, series, dict) ==
    IF self.value.m <= 0 THEN <<NotBuilt("ValueError")>>
    ELSE LET vlist == ESeries_decade(self.value, series)
         IN  [i \in 1..Len(vlist) |->
                 Eclass_init_num(cls, vlist[i], NoArg, series, kwargsOf(dict))]

\* PObject.__mul__ and __truediv__ of an EEObject for a number other:
\* self.__class__( resval, self.__unit, **self.__kwargs )
EEObject_scaled(cls, self, series, dict, resval) ==
    Eclass_init_num(cls, resval, UnitObject(self.unit), series, kwargsOf(dict))

\* self * other for a number other
EEObject_mul(cls, self, series, dict, other) ==
    EEObject_scaled(cls, self, series, dict, decMul(self.value, other))

\* self / other for a number other
EEObject_truediv(cls, self, series, dict, other) ==
    IF other.m = 0 THEN NotBuilt("ZeroDivisionError")
    ELSE EEObject_scaled(cls, self, series, dict, decDiv(self.value, other))

----------------------------------------------------------------------------
(* The calls made on an EEObject: r is constructed, a few operations are   *)
(* applied to it, and it is dropped                                        *)

EIdle == UNCHANGED <<acc, last, pfx, objs, dicts, qlast, iter>>

\* the classes r is constructed from
EClasses == {"EEObject", "Resistor"}

\* the numbers r is constructed from
EValues == {Dec(1, 0), Dec(3, 0), Dec(95, -1), Dec(0, 0), Dec(-1, 0)}

\* the value strings r is constructed from
ETexts == {<<"3", " ", "V">>, <<"3", " ", "k", "V">>, <<"0", " ", "V">>,
           <<"3">>}

\* what follows the number in the constructor call
EArgs == {NoArg, UnitString(<<"V">>), UnitString(<<"Omega">>)}

\* the plain numbers used as the other operand
ENumbers == {Dec(2, 0), Dec(1, 1), Dec(5, -1), Dec(0, 0), Dec(-1, 0)}

\* r after a constructor call with the outcome b
Bound(op, cls, series, b) ==
    [op |-> op, cls |-> cls, series |-> series, live |-> b.exc = "none",
     exc |-> b.exc, self |-> Instance(b, 0), dict |-> b.dict, out |-> <<>>,
     calls |-> 0]

\* r = r.<op>( ... ) for a call with the outcome b: r stays what it was when
\* the call raises
Rebound(op, b) ==
    IF b.exc = "none"
    THEN [eobj EXCEPT !.op = op, !.exc = "none", !.self = Instance(b, 0),
                      !.dict = b.dict, !.out = <<>>, !.calls = @ + 1]
    ELSE [eobj EXCEPT !.op = op, !.exc = b.exc, !.out = <<>>, !.calls = @ + 1]

\* r <op>= other for a call with the effect eff
InPlace(op, eff) ==
    [eobj EXCEPT !.op = op, !.exc = eff.res.exc, !.self.value = eff.value,
                 !.dict.digits = eff.digits, !.out = <<>>, !.calls = @ + 1]

\* r is there and takes another call
Live == eobj.op # "none" /\ eobj.live /\ eobj.calls < MaxCalls

\* r = EEObject( value, *args, series=series ) and
\* r = Resistor( value, *args, series=series )
EEObjectNew ==
    /\ eobj.op = "none"
    /\ \E cls \in EClasses, value \in EValues, arg \in EArgs,
          series \in SeriesNames :
         eobj' = Bound("new", cls, series,
                       Eclass_init_num(cls, value, arg, series, NoKwargs))
    /\ EIdle

\* r = EEObject( valstring, series=series )
EEObjectParse ==
    /\ eobj.op = "none"
    /\ \E value \in ETexts, series \in SeriesNames :
         eobj' = Bound("parse", "EEObject", series,
                       EEObject_init_str(value, series, NoKwargs))
    /\ EIdle

\* r = r.next()
EEObjectNext ==
    /\ Live
    /\ eobj' = Rebound("next", EEObject_next(eobj.cls, eobj.self, eobj.series,
                                             eobj.dict))
    /\ EIdle

\* r = r.previous()
EEObjectPrevious ==
    /\ Live
    /\ eobj' = Rebound("previous", EEObject_previous(eobj.cls, eobj.self,
                                       eobj.series, eobj.dict))
    /\ EIdle

\* r.decade()
EEObjectDecade ==
    /\ Live
    /\ eobj' = [eobj EXCEPT !.op = "decade",
                   !.exc = EEObject_decade(eobj.cls, eobj.self, eobj.series,
                                           eobj.dict)[1].exc,
                   !.out = EEObject_decade(eobj.cls, eobj.self, eobj.series,
                                           eobj.dict),
                   !.calls = @ + 1]
    /\ EIdle

\* r = r * other
EEObjectMul ==
    /\ Live
    /\ \E other \in ENumbers :
         eobj' = Rebound("mul", EEObject_mul(eobj.cls, eobj.self, eobj.series,
                                             eobj.dict, other))
    /\ EIdle

\* r = r / other
EEObjectTruediv ==
    /\ Live
    /\ \E other \in ENumbers :
         eobj' = Rebound("truediv", EEObject_truediv(eobj.cls, eobj.self,
                                        eobj.series, eobj.dict, other))
    /\ EIdle

\* r *= other
EEObjectImul ==
    /\ Live
    /\ \E other \in ENumbers :
         eobj' = InPlace("imul", PObject_imul(eobj.self, eobj.dict,
                                              Scalar(other)))
    /\ EIdle

\* r /= other
EEObjectItruediv ==
    /\ Live
    /\ \E other \in ENumbers :
         eobj' = InPlace("itruediv", PObject_itruediv(eobj.self, eobj.dict,
                                                      Scalar(other)))
    /\ EIdle

\* r += other and r -= other for a number other and for r itself
EEObjectIadd ==
    /\ Live
    /\ \E other \in {Scalar(v) : v \in ENumbers} \cup {AsOther(eobj.self)} :
         \/ eobj' = InPlace("iadd", PObject_iadd(eobj.self, eobj.dict, other))
         \/ eobj' = InPlace("isub", PObject_isub(eobj.self, eobj.dict, other))
    /\ EIdle

\* r is dropped
EEObjectReset ==
    /\ eobj.op # "none"
    /\ eobj' = [op |-> "none"]
    /\ EIdle

NextEEObject ==
    \/ EEObjectNew
    \/ EEObjectParse
    \/ EEObjectNext
    \/ EEObjectPrevious
    \/ EEObjectDecade
    \/ EEObjectMul
    \/ EEObjectTruediv
    \/ EEObjectImul
    \/ EEObjectItruediv
    \/ EEObjectIadd
    \/ EEObjectReset

SpecEEObject == InitUnit /\ [][NextEEObject]_vars

----------------------------------------------------------------------------
(* Claims about EEObject                                                   *)

\* value is a member of the series times a power of ten
InSeries(value, series) ==
    /\ value.m > 0
    /\ \E i \in 1..ESeries_len(series) : Dec(eList(series)[i], 0).m = value.m

\* C27: whatever calls have been made on an EEObject (its construction, next,
\* previous, decade, arithmetic with numbers, in-place arithmetic), its
\* value, and the values of the objects decade has made from it, are members
\* of its series times a power of ten
C27_ValuesOfSeries ==
    (eobj.op # "none" /\ eobj.live)
        => /\ InSeries(eobj.self.value, eobj.series)
           /\ \A i \in 1..Len(eobj.out) :
                 eobj.out[i].exc = "none"
                     => InSeries(eobj.out[i].value, eobj.series)

----------------------------------------------------------------------------
(* EEIterators: the iterator over the values of a series between a start   *)
(* and an end value                                                        *)

\* Erange( start, end, "Ω", series=series ) makes EEObjects and passes them
\* the unit; Rrange( start, end, series=series ) makes Resistors, and
\* Erange.__init__ leaves the class itself at the head of the arguments it
\* passes them
EclassOf(kind) == IF kind = "Rrange" THEN "Resistor" ELSE "EEObject"

argOf(kind) == IF kind = "Rrange" THEN ClassObject ELSE UnitString(<<"Omega">>)

\* ErangeIter.__init__ for a start > 0: the fields of the iterator, and the
\* values it has returned
ErangeIter_init(kind, start, end, series) ==
    [state    |-> "iterating",
     kind     |-> kind,
     start    |-> start,
     end      |-> end,
     series   |-> series,
     distance |-> Inf,
     last     |-> ESeries_len(series) - 1,
     forward  |-> ~decLess(end, start),
     index    |-> closestAt(series, start, pow10(floorLog10(start))).index,
     factor   |-> closestAt(series, start, pow10(floorLog10(start))).factor,
     values   |-> <<>>,
     exc      |-> "none"]

\* lines 121-130 of __next__: the index and the factor after the step
advanced(self) ==
    IF self.forward
    THEN IF self.index + 1 > self.last THEN At(0, decScale(self.factor, 1))
         ELSE At(self.index + 1, self.factor)
    ELSE IF self.index - 1 < 0 THEN At(self.last, tenth(self.factor))
         ELSE At(self.index - 1, self.factor)

\* lines 132 of __next__ for the outcome made of the call of the class: the
\* object is returned, or the exception of the call leaves __next__
returned(self, made) ==
    IF made.exc # "none"
    THEN [self EXCEPT !.state = "failed", !.exc = made.exc]
    ELSE [self EXCEPT !.state = "iterating", !.exc = "none",
                      !.values = Append(@, made.value)]

\* lines 117-132 of __next__ for the value at hand and its distance from the
\* end value
stepped(self, value, newDistance) ==
    IF errLess(self.distance, newDistance)
    THEN [self EXCEPT !.state = "stopped", !.exc = "StopIteration"]
    ELSE returned([self EXCEPT !.distance = newDistance,
                               !.index = advanced(self).index,
                               !.factor = advanced(self).factor],
                  Eclass_init_num(EclassOf(self.kind), value, argOf(self.kind),
                                  self.series, NoKwargs))

\* what abs( self.__end - value ) is
distanceOf(self, value) == Fin(decAbs(decSub(self.end, value)))

\* ErangeIter.__next__
ErangeIter_next(self) ==
    stepped(self, valueAt(self.series, At(self.index, self.factor)),
            distanceOf(self, valueAt(self.series, At(self.index, self.factor))))

RECURSIVE iterated(_)
\* [x.value for x in <iterator>]: the values returned until __next__ raises
iterated(self) ==
    IF self.state # "iterating" THEN self.values
    ELSE iterated(ErangeIter_next(self))

----------------------------------------------------------------------------
(* The calls made on an iterator                                           *)

IterIdle == UNCHANGED <<acc, last, pfx, objs, dicts, qlast, eobj>>

\* the iterables the iterator is made from
IterKinds == {"Erange", "Rrange"}

\* the start values, all > 0
IterStarts ==
    {Dec(1, 0), Dec(125, -2), Dec(12, -1), Dec(3, 0), Dec(95, -1), Dec(5, -1)}

\* the end values
IterEnds == IterStarts \cup {Dec(13, -1), Dec(2, 1), Dec(0, 0), Dec(-5, 0)}

\* it = iter( Erange( start, end, "Ω", series=series ) ) and
\* it = iter( Rrange( start, end, series=series ) )
ErangeIterNew ==
    /\ iter.state = "none"
    /\ \E kind \in IterKinds, start \in IterStarts, end \in IterEnds,
          series \in SeriesNames :
         iter' = ErangeIter_init(kind, start, end, series)
    /\ IterIdle

\* next( it ), also after a call that raised something other than
\* StopIteration
ErangeIterNext ==
    /\ iter.state \in {"iterating", "failed"}
    /\ iter' = ErangeIter_next(iter)
    /\ IterIdle

\* it is dropped after it has raised
ErangeIterReset ==
    /\ iter.state \in {"stopped", "failed"}
    /\ iter' = [state |-> "none"]
    /\ IterIdle

NextErange ==
    \/ ErangeIterNew
    \/ ErangeIterNext
    \/ ErangeIterReset

SpecErange == InitUnit /\ [][NextErange]_vars

----------------------------------------------------------------------------
(* Claims about the iterators                                              *)

RECURSIVE reversed(_)
\* s[::-1]
reversed(s) == IF s = <<>> THEN <<>> ELSE Append(reversed(Tail(s)), Head(s))

\* the values of the iteration in the other direction
OtherWay(self) ==
    iterated(ErangeIter_init(self.kind, self.end, self.start, self.series))

\* C26: for start and end values > 0, the values an iteration from start to
\* end has returned when it raises StopIteration are those of the iteration
\* from end to start in reverse order; the first is the value of the series
\* closest to start and the last the one closest to end
C26_DirectionIndependent ==
    (iter.state = "stopped" /\ iter.start.m > 0 /\ iter.end.m > 0)
        => /\ iter.values = reversed(OtherWay(iter))
           /\ iter.values # <<>>
           /\ Head(iter.values) = ESeries_closest(iter.start, iter.series).value
           /\ iter.values[Len(iter.values)]
                  = ESeries_closest(iter.end, iter.series).value

RECURSIVE stopsAfter(_, _)
\* repeated calls of next( it ) raise StopIteration after finitely many of
\* them: the iterator does not come back to a state it has been in
stopsAfter(self, seen) ==
    IF self.state = "stopped" THEN TRUE
    ELSE IF self \in seen THEN FALSE
    ELSE stopsAfter(ErangeIter_next(self), seen \cup {self})

\* C30: for every series, every start > 0 and every end value, repeated
\* calls of next( it ) raise StopIteration after finitely many values
C30_Terminates ==
    iter.state \in {"iterating", "failed"} => stopsAfter(iter, {})

====
